---- MODULE Spec2Model ----
(***************************************************************************)
(* Model of the deterministic core of analise-econom-ia: the monetary      *)
(* value parser (utils/parse.ts), the transaction builder                  *)
(* (services/openai.ts, convertToTransactionData) and the aggregation      *)
(* engine (utils/aggregate.ts).                                            *)
(*                                                                         *)
(* A JavaScript string is a sequence of one-character strings, so that     *)
(* substring, split, replace, join and includes are computed character by  *)
(* character as the code computes them.                                    *)
(***************************************************************************)
EXTENDS Integers, Sequences, FiniteSets, TLC

VARIABLES
    pc,               \* position of the run: "start", then the name of the step taken
    valor,            \* argument of parseValorBrasileiro
    centavos,         \* its return value (NoValue before the call)
    rawTransactions,  \* the classifier's records (BatchClassificationResult['transactions'])
    transactions,     \* TransactionData[] handed to aggregateTransactions
    aggregation,      \* the AggregationResult (NoValue before the call)
    hoje,             \* the date new Date() gave (NoValue before the call)
    arg,              \* argument of a function called on its own, as it was passed
    ret,              \* its return value (NoValue before the call)
    batches,          \* createBatches(rows, 30) of analyzeCSVWithAI
    batchIndex,       \* the i of its for loop
    batchResults,     \* the transactions of each batchResult processBatch returned, in call order
    progress,         \* the calls made to the progressCallback
    outcome,          \* how analyzeCSVWithAI ended (NoValue while it runs)
    events,           \* the events written to the response of /api/analyze-stream
    streamEnded,      \* res.end() was called
    wire,             \* the text of the response not yet delivered to the client
    buffer,           \* the buffer of analyzeCSVWithProgress
    promise           \* the promise analyzeCSVWithProgress returned

analysisVars == <<batches, batchIndex, batchResults, progress, outcome>>
streamVars == <<events, streamEnded>>
clientVars == <<wire, buffer, promise>>

vars == <<pc, valor, centavos, rawTransactions, transactions, aggregation, hoje, arg, ret,
          analysisVars, streamVars, clientVars>>

NoValue == "none"

\* no analysis is running, no response is open
InitAnalysisVars ==
    /\ batches = <<>>
    /\ batchIndex = 0
    /\ batchResults = <<>>
    /\ progress = <<>>
    /\ outcome = NoValue

InitStreamVars ==
    /\ events = <<>>
    /\ streamEnded = FALSE

InitClientVars ==
    /\ wire = <<>>
    /\ buffer = <<>>
    /\ promise = "pending"

NoAnalysis == InitAnalysisVars /\ InitStreamVars /\ InitClientVars

(***************************************************************************)
(* Bounds of the model.                                                    *)
(***************************************************************************)
MaxTx == 3

\* the classifier returns at most MaxRaw records
MaxRaw == 5

\* the amount strings are made of at most MaxTokens pieces of ValorTokens and
\* hold at most MaxDigits digits (the amounts stay within TLC's integers)
MaxTokens == 5
MaxDigits == 7

\* slice(0, 5) of the top outflow categories
TopN == 5

(***************************************************************************)
(* String helpers (JavaScript String.prototype).                           *)
(***************************************************************************)
Digits == {"0", "1", "2", "3", "4", "5", "6", "7", "8", "9"}

\* Array.prototype.join / string concatenation of a list of strings with a separator
RECURSIVE Join(_, _)
Join(partes, sep) ==
    IF Len(partes) = 0 THEN <<>>
    ELSE IF Len(partes) = 1 THEN partes[1]
    ELSE partes[1] \o sep \o Join(Tail(partes), sep)

\* rank of a character in the collation used by localeCompare: punctuation
\* sorts before digits, digits by value
CharRank(c) ==
    CASE c = "-" -> 0
      [] c = "/" -> 1
      [] c = "0" -> 10 [] c = "1" -> 11 [] c = "2" -> 12 [] c = "3" -> 13
      [] c = "4" -> 14 [] c = "5" -> 15 [] c = "6" -> 16 [] c = "7" -> 17
      [] c = "8" -> 18 [] c = "9" -> 19
      [] OTHER -> 30

\* a.localeCompare(b) < 0, = 0, > 0 as -1, 0, 1
RECURSIVE localeCompare(_, _)
localeCompare(a, b) ==
    IF Len(a) = 0 /\ Len(b) = 0 THEN 0
    ELSE IF Len(a) = 0 THEN -1
    ELSE IF Len(b) = 0 THEN 1
    ELSE IF CharRank(a[1]) < CharRank(b[1]) THEN -1
    ELSE IF CharRank(a[1]) > CharRank(b[1]) THEN 1
    ELSE localeCompare(Tail(a), Tail(b))

\* s.substring(0, n)
substring0(s, n) == SubSeq(s, 1, IF n < Len(s) THEN n ELSE Len(s))

(***************************************************************************)
(* utils/parse.ts: parseValorBrasileiro                                    *)
(***************************************************************************)
\* whitespace removed by String.prototype.trim
IsSpace(c) == c \in {" ", "\t", "\n"}

RECURSIVE TrimStart(_)
TrimStart(s) ==
    IF Len(s) > 0 /\ IsSpace(s[1]) THEN TrimStart(Tail(s)) ELSE s

RECURSIVE TrimEnd(_)
TrimEnd(s) ==
    IF Len(s) > 0 /\ IsSpace(s[Len(s)]) THEN TrimEnd(SubSeq(s, 1, Len(s) - 1)) ELSE s

\* s.trim()
Trim(s) == TrimEnd(TrimStart(s))

\* s.startsWith(c), s.endsWith(c), s.includes(c) for a one-character c
startsWith(s, c) == Len(s) > 0 /\ s[1] = c
endsWith(s, c) == Len(s) > 0 /\ s[Len(s)] = c
includesChar(s, c) == \E i \in 1..Len(s) : s[i] = c

\* s.replace(/R\$?/g, ''): every 'R', with the '$' that follows it if any
RECURSIVE RemoveMoeda(_)
RemoveMoeda(s) ==
    IF Len(s) = 0 THEN <<>>
    ELSE IF s[1] = "R"
         THEN IF Len(s) > 1 /\ s[2] = "$"
              THEN RemoveMoeda(SubSeq(s, 3, Len(s)))
              ELSE RemoveMoeda(Tail(s))
         ELSE <<s[1]>> \o RemoveMoeda(Tail(s))

\* s.replace(/[^\d,.-]/g, '')
KeepValorChars(s) == SelectSeq(s, LAMBDA c : c \in Digits \cup {",", ".", "-"})

\* s.replace(c, ''): the first occurrence only
RECURSIVE RemoveFirst(_, _)
RemoveFirst(s, c) ==
    IF Len(s) = 0 THEN <<>>
    ELSE IF s[1] = c THEN Tail(s)
    ELSE <<s[1]>> \o RemoveFirst(Tail(s), c)

\* s.replace(/c/g, ''): every occurrence
RemoveAll(s, c) == SelectSeq(s, LAMBDA x : x # c)

\* s.split(c): the pieces between the occurrences of c
RECURSIVE SplitFrom(_, _, _)
SplitFrom(s, c, piece) ==
    IF Len(s) = 0 THEN <<piece>>
    ELSE IF s[1] = c THEN <<piece>> \o SplitFrom(Tail(s), c, <<>>)
    ELSE SplitFrom(Tail(s), c, Append(piece, s[1]))

split(s, c) == SplitFrom(s, c, <<>>)

\* mutant of PadEnd2: a single fraction digit is not padded
PadEnd2_NoPad(s) == IF Len(s) = 0 THEN <<"0", "0">> ELSE SubSeq(s, 1, IF Len(s) < 2 THEN Len(s) ELSE 2)

\* s.padEnd(2, '0').substring(0, 2)
PadEnd2(s) ==
    IF Len(s) = 0 THEN <<"0", "0">>
    ELSE IF Len(s) = 1 THEN <<s[1], "0">>
    ELSE SubSeq(s, 1, 2)

DigitVal(c) ==
    CASE c = "0" -> 0 [] c = "1" -> 1 [] c = "2" -> 2 [] c = "3" -> 3 [] c = "4" -> 4
      [] c = "5" -> 5 [] c = "6" -> 6 [] c = "7" -> 7 [] c = "8" -> 8 [] c = "9" -> 9

\* the value of the longest prefix of decimal digits, acc being the value so far
RECURSIVE ParseDigits(_, _)
ParseDigits(s, acc) ==
    IF Len(s) > 0 /\ s[1] \in Digits
    THEN ParseDigits(Tail(s), acc * 10 + DigitVal(s[1]))
    ELSE acc

\* parseInt(s) || 0: optional sign, then the leading digits; NaN (no digit) gives 0
parseIntOr0(s) ==
    LET t == TrimStart(s)
        signed == Len(t) > 0 /\ t[1] \in {"-", "+"}
        body == IF signed THEN Tail(t) ELSE t
        n == ParseDigits(body, 0)
    IN  IF signed /\ t[1] = "-" THEN 0 - n ELSE n

\* the decimal-separator analysis (parse.ts 43-77): the integer part and the
\* cents as strings
PartesDoValor(valorLimpo) ==
    IF includesChar(valorLimpo, ",")
    THEN LET partes == split(valorLimpo, ",")
         IN  IF Len(partes) = 2 /\ Len(partes[2]) <= 2
             THEN [parteInteira |-> RemoveAll(partes[1], "."), centavos |-> PadEnd2(partes[2])]
             ELSE [parteInteira |-> <<>>, centavos |-> <<>>]
    ELSE IF includesChar(valorLimpo, ".")
    THEN LET partes == split(valorLimpo, ".")
         IN  IF Len(partes) = 2 /\ Len(partes[2]) <= 2
             THEN [parteInteira |-> RemoveAll(partes[1], ","), centavos |-> PadEnd2(partes[2])]
             ELSE [parteInteira |-> RemoveAll(valorLimpo, "."), centavos |-> <<"0", "0">>]
    ELSE [parteInteira |-> valorLimpo, centavos |-> <<"0", "0">>]

\* mutant of parseValorBrasileiro: a minus sign inside parentheses cancels them
parseValorBrasileiro_SignsCancel(v) ==
    IF Len(v) = 0 THEN 0
    ELSE
    LET trimmed == Trim(v)
        isNegativeParentheses == startsWith(trimmed, "(") /\ endsWith(trimmed, ")")
        unwrapped == IF isNegativeParentheses
                     THEN SubSeq(trimmed, 2, Len(trimmed) - 1)
                     ELSE trimmed
        cleaned == Trim(KeepValorChars(RemoveMoeda(unwrapped)))
        hasMinus == startsWith(cleaned, "-")
        isNegative == hasMinus # isNegativeParentheses
        valorLimpo == IF hasMinus THEN RemoveFirst(cleaned, "-") ELSE cleaned
        partes == PartesDoValor(valorLimpo)
        valorEmCentavos == parseIntOr0(partes.parteInteira) * 100 + parseIntOr0(partes.centavos)
    IN  IF isNegative THEN 0 - valorEmCentavos ELSE valorEmCentavos

\* parseValorBrasileiro of a string
parseValorBrasileiro(v) ==
    IF Len(v) = 0 THEN 0
    ELSE
    LET trimmed == Trim(v)
        isNegativeParentheses == startsWith(trimmed, "(") /\ endsWith(trimmed, ")")
        unwrapped == IF isNegativeParentheses
                     THEN SubSeq(trimmed, 2, Len(trimmed) - 1)
                     ELSE trimmed
        cleaned == Trim(KeepValorChars(RemoveMoeda(unwrapped)))
        isNegative == startsWith(cleaned, "-") \/ isNegativeParentheses
        valorLimpo == IF isNegative THEN RemoveFirst(cleaned, "-") ELSE cleaned
        partes == PartesDoValor(valorLimpo)
        valorEmCentavos == parseIntOr0(partes.parteInteira) * 100 + parseIntOr0(partes.centavos)
    IN  IF isNegative THEN 0 - valorEmCentavos ELSE valorEmCentavos

\* Math.round(valor * 100) of a number given in thousandths: the nearest
\* integer to thousandths / 10, a half going up
MathRoundTimes100(thousandths) == (thousandths + 5) \div 10

\* the outcome of a call: the value returned, or the error thrown
Returned(n) == [threw |-> "nothing", value |-> n]
Thrown(e) == [threw |-> e, value |-> 0]

\* mutant of parseValorBrasileiroAny: without the guard of parse.ts 19-21,
\* valor.trim() throws on null and undefined
parseValorBrasileiroAny_NoGuard(input) ==
    IF input.type = "number" THEN Returned(MathRoundTimes100(input.thousandths))
    ELSE IF input.type # "string" THEN Thrown("TypeError")
    ELSE Returned(parseValorBrasileiro(input.text))

\* parseValorBrasileiro of any argument (parse.ts 14-21): a number, null,
\* undefined or a string; no statement of the function throws
parseValorBrasileiroAny(input) ==
    IF input.type = "number" THEN Returned(MathRoundTimes100(input.thousandths))
    ELSE IF input.type # "string" \/ Len(input.text) = 0 THEN Returned(0)
    ELSE Returned(parseValorBrasileiro(input.text))

(***************************************************************************)
(* utils/parse.ts: formatarValorBrasileiro                                 *)
(***************************************************************************)
DigitChar(d) ==
    CASE d = 0 -> "0" [] d = 1 -> "1" [] d = 2 -> "2" [] d = 3 -> "3" [] d = 4 -> "4"
      [] d = 5 -> "5" [] d = 6 -> "6" [] d = 7 -> "7" [] d = 8 -> "8" [] d = 9 -> "9"

\* n.toString() of a natural number
RECURSIVE ToDigits(_)
ToDigits(n) ==
    IF n < 10 THEN <<DigitChar(n)>> ELSE Append(ToDigits(n \div 10), DigitChar(n % 10))

\* the digits in groups of three counted from the right, separated by periods
RECURSIVE GroupThousands(_)
GroupThousands(digits) ==
    IF Len(digits) <= 3 THEN digits
    ELSE GroupThousands(SubSeq(digits, 1, Len(digits) - 3))
         \o <<".">> \o SubSeq(digits, Len(digits) - 2, Len(digits))

\* n.toLocaleString('pt-BR') of a natural number
toLocaleStringPtBR(n) == GroupThousands(ToDigits(n))

\* mutant of PadStart2: nothing is padded
PadStart2_NoPad(s) == s

\* s.padStart(2, '0')
PadStart2(s) ==
    IF Len(s) = 0 THEN <<"0", "0">>
    ELSE IF Len(s) = 1 THEN <<"0", s[1]>>
    ELSE s

formatarValorBrasileiro(cents) ==
    LET isNegativo == cents < 0
        valorAbsoluto == IF cents < 0 THEN 0 - cents ELSE cents
        reais == valorAbsoluto \div 100
        centavosRestantes == valorAbsoluto % 100
        reaisFormatados == toLocaleStringPtBR(reais)
        valorFormatado == <<"R", "$", " ">> \o reaisFormatados \o <<",">>
                          \o PadStart2(ToDigits(centavosRestantes))
    IN  IF isNegativo THEN <<"-">> \o valorFormatado ELSE valorFormatado

(***************************************************************************)
(* utils/parse.ts: parseDateBrasileira, normalizeCategoria,                *)
(* parseCategoriaPath                                                      *)
(***************************************************************************)
IsDigitString(s) == \A i \in 1..Len(s) : s[i] \in Digits

\* /^\d{4}-\d{2}-\d{2}$/.test(s)
IsIsoDate(s) ==
    /\ Len(s) = 10
    /\ s[5] = "-" /\ s[8] = "-"
    /\ \A i \in {1, 2, 3, 4, 6, 7, 9, 10} : s[i] \in Digits

\* s.match(/^(\d{1,2})\/(\d{1,2})\/(\d{2,4})$/) is not null
MatchesBR(s) ==
    LET g == split(s, "/")
    IN  /\ Len(g) = 3
        /\ IsDigitString(g[1]) /\ Len(g[1]) \in 1..2
        /\ IsDigitString(g[2]) /\ Len(g[2]) \in 1..2
        /\ IsDigitString(g[3]) /\ Len(g[3]) \in 2..4

\* parseDateBrasileira; dataHoje is new Date().toISOString().split('T')[0].  The
\* MM/DD/YYYY branch (parse.ts 133-137) is never reached: every string it
\* matches is matched by the DD/MM/YYYY pattern before it.
parseDateBrasileira(data, dataHoje) ==
    IF Len(data) = 0 THEN dataHoje
    ELSE
    LET dataLimpa == Trim(data)
    IN  IF IsIsoDate(dataLimpa) THEN dataLimpa
        ELSE IF MatchesBR(dataLimpa)
        THEN LET g == split(dataLimpa, "/")
                 dia == g[1]
                 mes == g[2]
                 ano == IF Len(g[3]) = 2
                        THEN IF parseIntOr0(g[3]) < 50
                             THEN <<"2", "0">> \o g[3]
                             ELSE <<"1", "9">> \o g[3]
                        ELSE g[3]
             IN  ano \o <<"-">> \o PadStart2(mes) \o <<"-">> \o PadStart2(dia)
        ELSE dataHoje

\* c.toLowerCase()
Lower(c) ==
    CASE c = "A" -> "a" [] c = "B" -> "b" [] c = "C" -> "c" [] c = "D" -> "d"
      [] c = "E" -> "e" [] c = "F" -> "f" [] c = "G" -> "g" [] c = "H" -> "h"
      [] c = "I" -> "i" [] c = "J" -> "j" [] c = "K" -> "k" [] c = "L" -> "l"
      [] c = "M" -> "m" [] c = "N" -> "n" [] c = "O" -> "o" [] c = "P" -> "p"
      [] c = "Q" -> "q" [] c = "R" -> "r" [] c = "S" -> "s" [] c = "T" -> "t"
      [] c = "U" -> "u" [] c = "V" -> "v" [] c = "W" -> "w" [] c = "X" -> "x"
      [] c = "Y" -> "y" [] c = "Z" -> "z" [] c = "Ç" -> "ç" [] c = "Ã" -> "ã"
      [] c = "Á" -> "á" [] c = "À" -> "à" [] c = "Â" -> "â" [] c = "É" -> "é"
      [] c = "Ê" -> "ê" [] c = "Í" -> "í" [] c = "Ó" -> "ó" [] c = "Ô" -> "ô"
      [] c = "Õ" -> "õ" [] c = "Ú" -> "ú"
      [] OTHER -> c

toLowerCase(s) == [i \in 1..Len(s) |-> Lower(s[i])]

\* .normalize('NFD').replace(/[\u0300-\u036f]/g, ''): the base letter of an
\* accented letter
Deaccent(c) ==
    CASE c = "ç" -> "c" [] c = "ã" -> "a" [] c = "á" -> "a" [] c = "à" -> "a"
      [] c = "â" -> "a" [] c = "é" -> "e" [] c = "ê" -> "e" [] c = "í" -> "i"
      [] c = "ó" -> "o" [] c = "ô" -> "o" [] c = "õ" -> "o" [] c = "ú" -> "u"
      [] OTHER -> c

LowerLetters ==
    { "a", "b", "c", "d", "e", "f", "g", "h", "i", "j", "k", "l", "m",
      "n", "o", "p", "q", "r", "s", "t", "u", "v", "w", "x", "y", "z" }

\* .replace(/\s+/g, ' '): a run of whitespace becomes one space
RECURSIVE CollapseSpaces(_)
CollapseSpaces(s) ==
    IF Len(s) = 0 THEN <<>>
    ELSE IF IsSpace(s[1])
         THEN <<" ">> \o CollapseSpaces(TrimStart(s))
         ELSE <<s[1]>> \o CollapseSpaces(Tail(s))

outros == <<"o", "u", "t", "r", "o", "s">>

normalizeCategoria(categoria) ==
    IF Len(categoria) = 0 THEN outros
    ELSE
    LET lowered == toLowerCase(Trim(categoria))
        semAcentos == [i \in 1..Len(lowered) |-> Deaccent(lowered[i])]
        limpa == SelectSeq(semAcentos,
                           LAMBDA c : c \in LowerLetters \cup Digits \/ IsSpace(c))
    IN  Trim(CollapseSpaces(limpa))

\* categoria.split(/[>\/:]/)
RECURSIVE SplitCategoria(_, _)
SplitCategoria(s, piece) ==
    IF Len(s) = 0 THEN <<piece>>
    ELSE IF s[1] \in {">", "/", ":"}
         THEN <<piece>> \o SplitCategoria(Tail(s), <<>>)
         ELSE SplitCategoria(Tail(s), Append(piece, s[1]))

parseCategoriaPath(categoria) ==
    IF Len(categoria) = 0 THEN <<outros>>
    ELSE
    LET pieces == SplitCategoria(categoria, <<>>)
        normalized == [i \in 1..Len(pieces) |-> normalizeCategoria(pieces[i])]
        partes == SelectSeq(normalized, LAMBDA parte : Len(parte) > 0)
    IN  IF Len(partes) > 0 THEN partes ELSE <<outros>>

(***************************************************************************)
(* services/openai.ts: convertToTransactionData                            *)
(***************************************************************************)
\* the settlement marker of the exclusion filter
Marker == <<"p", "a", "g", "a", "m", "e", "n", "t", "o", "s", " ", "v", "a", "l", "i", "d", "o", "s", " ", "n", "o", "r", "m", "a", "i", "s">>

\* s.includes(sub)
includes(s, sub) ==
    \E i \in 0..(Len(s) - Len(sub)) : SubSeq(s, i + 1, i + Len(sub)) = sub

\* s || d
OrDefault(s, d) == IF Len(s) = 0 THEN d ELSE s

NaoInformado == <<"N", "ã", "o", " ", "i", "n", "f", "o", "r", "m", "a", "d", "o">>
SemDescricao == <<"S", "e", "m", " ", "d", "e", "s", "c", "r", "i", "ç", "ã", "o">>

\* mutant of KeepRaw: only empresa is searched for the marker
KeepRaw_EmpresaOnly(raw) ==
    ~includes(toLowerCase(OrDefault(raw.empresa, <<>>)), Marker)

\* the predicate of rawTransactions.filter(raw => ...)
KeepRaw(raw) ==
    LET empresa == toLowerCase(OrDefault(raw.empresa, <<>>))
        descricao == toLowerCase(OrDefault(raw.descricao, <<>>))
    IN  ~includes(empresa, Marker) /\ ~includes(descricao, Marker)

Abs(n) == IF n < 0 THEN 0 - n ELSE n

\* mutant of TipoDe: the tipo the classifier gave is kept
TipoDe_FromHint(raw, valorCentavos) == raw.tipo

\* the tipo of the built Transaction
TipoDe(raw, valorCentavos) == IF valorCentavos < 0 THEN "Entrada" ELSE "Saída"

\* the function of .map(raw => ...)
BuildTransaction(raw, dataHoje) ==
    LET valorCentavos == parseValorBrasileiro(raw.valorOriginal)
    IN  [id |-> raw.id,
         tipo |-> TipoDe(raw, valorCentavos),
         valorCentavos |-> Abs(valorCentavos),
         categoria |-> raw.categoria,
         categoriaPath |-> parseCategoriaPath(raw.categoria),
         empresa |-> OrDefault(raw.empresa, NaoInformado),
         descricao |-> OrDefault(raw.descricao, SemDescricao),
         data |-> parseDateBrasileira(raw.data, dataHoje)]

convertToTransactionData(raws, dataHoje) ==
    LET kept == SelectSeq(raws, KeepRaw)
    IN  [i \in 1..Len(kept) |-> BuildTransaction(kept[i], dataHoje)]

(***************************************************************************)
(* utils/aggregate.ts                                                      *)
(***************************************************************************)
\* the separator of path.slice(0, i + 1).join(' > ')
SepCategoria == <<" ", ">", " ">>

RECURSIVE SomaValores(_)
SomaValores(ts) ==
    IF Len(ts) = 0 THEN 0 ELSE ts[1].valorCentavos + SomaValores(Tail(ts))

\* mutant of TotalPorTipo: the filter on tipo is missing
TotalPorTipo_NoFilter(ts, tipo) == SomaValores(ts)

\* transactions.filter(t => t.tipo === tipo).reduce((sum, t) => sum + t.valorCentavos, 0)
TotalPorTipo(ts, tipo) == SomaValores(SelectSeq(ts, LAMBDA t : t.tipo = tipo))

\* position of the key in a Map kept as a sequence in insertion order, 0 if absent
MapIndex(map, key) ==
    IF \E k \in 1..Len(map) : map[k].key = key
    THEN CHOOSE k \in 1..Len(map) : map[k].key = key
    ELSE 0

\* mutant of AddLevel: an inflow is netted against the outflows of its prefix
AddLevel_Netted(map, transaction, i) ==
    LET path == transaction.categoriaPath
        categoryKey == Join(SubSeq(path, 1, i), SepCategoria)
        idx == MapIndex(map, categoryKey)
        existing == IF idx = 0
                    THEN [key |-> categoryKey, entrada |-> 0, saida |-> 0,
                          categoriaPath |-> SubSeq(path, 1, i), transactionCount |-> 0]
                    ELSE map[idx]
        added == IF transaction.tipo = "Entrada"
                 THEN [existing EXCEPT !.saida = @ - transaction.valorCentavos]
                 ELSE [existing EXCEPT !.saida = @ + transaction.valorCentavos]
        updated == [added EXCEPT !.transactionCount = @ + 1]
    IN  IF idx = 0 THEN Append(map, updated) ELSE [map EXCEPT ![idx] = updated]

\* one pass of the body of the for loop of aggregateByCategory: level i of the path
AddLevel(map, transaction, i) ==
    LET path == transaction.categoriaPath
        categoryKey == Join(SubSeq(path, 1, i), SepCategoria)
        idx == MapIndex(map, categoryKey)
        existing == IF idx = 0
                    THEN [key |-> categoryKey, entrada |-> 0, saida |-> 0,
                          categoriaPath |-> SubSeq(path, 1, i), transactionCount |-> 0]
                    ELSE map[idx]
        added == IF transaction.tipo = "Entrada"
                 THEN [existing EXCEPT !.entrada = @ + transaction.valorCentavos]
                 ELSE [existing EXCEPT !.saida = @ + transaction.valorCentavos]
        updated == [added EXCEPT !.transactionCount = @ + 1]
    IN  IF idx = 0 THEN Append(map, updated) ELSE [map EXCEPT ![idx] = updated]

RECURSIVE AddLevels(_, _, _)

\* mutant of AddLevels: only the full path is aggregated, not its ancestors
AddLevels_LeafOnly(map, transaction, i) ==
    IF Len(transaction.categoriaPath) = 0 THEN map
    ELSE AddLevel(map, transaction, Len(transaction.categoriaPath))

\* for (let i = 0; i < path.length; i++) { ... }, from level i on
AddLevels(map, transaction, i) ==
    IF i > Len(transaction.categoriaPath) THEN map
    ELSE AddLevels(AddLevel(map, transaction, i), transaction, i + 1)

\* transactions.forEach(transaction => { ... }) over the categoryMap
RECURSIVE CategoryMapOf(_, _)
CategoryMapOf(ts, map) ==
    IF Len(ts) = 0 THEN map
    ELSE CategoryMapOf(Tail(ts), AddLevels(map, ts[1], 1))

\* (total / grandTotal) * 100, or 0 when the grand total is not positive; kept as
\* the exact quotient num/den (the rounding of the float division is not modelled)
Percentual(total, grandTotal) ==
    IF grandTotal > 0 THEN [num |-> total * 100, den |-> grandTotal]
    ELSE [num |-> 0, den |-> 1]

\* mutant of EntriesOf: entries are pushed whatever their total
EntriesOf_NoPositiveFilter(values, totalEntradas, totalSaidas) ==
    << [categoria |-> values.key, categoriaPath |-> values.categoriaPath,
        totalCentavos |-> values.entrada, tipo |-> "entrada",
        transactionCount |-> values.transactionCount,
        percentual |-> Percentual(values.entrada, totalEntradas)],
       [categoria |-> values.key, categoriaPath |-> values.categoriaPath,
        totalCentavos |-> values.saida, tipo |-> "saida",
        transactionCount |-> values.transactionCount,
        percentual |-> Percentual(values.saida, totalSaidas)] >>

\* the entries pushed for one key of the categoryMap: 'entrada' first, then 'saida'
EntriesOf(values, totalEntradas, totalSaidas) ==
    (IF values.entrada > 0
     THEN << [categoria |-> values.key, categoriaPath |-> values.categoriaPath,
              totalCentavos |-> values.entrada, tipo |-> "entrada",
              transactionCount |-> values.transactionCount,
              percentual |-> Percentual(values.entrada, totalEntradas)] >>
     ELSE <<>>)
    \o
    (IF values.saida > 0
     THEN << [categoria |-> values.key, categoriaPath |-> values.categoriaPath,
              totalCentavos |-> values.saida, tipo |-> "saida",
              transactionCount |-> values.transactionCount,
              percentual |-> Percentual(values.saida, totalSaidas)] >>
     ELSE <<>>)

\* categoryMap.forEach((values, categoryKey) => { ... })
RECURSIVE EmitCategories(_, _, _)
EmitCategories(map, totalEntradas, totalSaidas) ==
    IF Len(map) = 0 THEN <<>>
    ELSE EntriesOf(map[1], totalEntradas, totalSaidas)
         \o EmitCategories(Tail(map), totalEntradas, totalSaidas)

\* Array.prototype.sort((a, b) => b.totalCentavos - a.totalCentavos): stable,
\* so x goes behind every element that does not have to follow it
RECURSIVE InsertByTotalDesc(_, _)
InsertByTotalDesc(sorted, x) ==
    IF Len(sorted) = 0 THEN <<x>>
    ELSE IF sorted[1].totalCentavos >= x.totalCentavos
         THEN <<sorted[1]>> \o InsertByTotalDesc(Tail(sorted), x)
         ELSE <<x>> \o sorted

RECURSIVE SortByTotalDesc(_, _)
SortByTotalDesc(todo, sorted) ==
    IF Len(todo) = 0 THEN sorted
    ELSE SortByTotalDesc(Tail(todo), InsertByTotalDesc(sorted, todo[1]))

aggregateByCategory(ts, totalEntradas, totalSaidas) ==
    SortByTotalDesc(EmitCategories(CategoryMapOf(ts, <<>>), totalEntradas, totalSaidas), <<>>)

\* mutant of AddMonth: the key is the whole date, not its first 7 characters
AddMonth_ByDay(map, transaction) ==
    LET mes == transaction.data
        idx == MapIndex(map, mes)
        existing == IF idx = 0
                    THEN [key |-> mes, entradas |-> 0, saidas |-> 0, count |-> 0]
                    ELSE map[idx]
        added == IF transaction.tipo = "Entrada"
                 THEN [existing EXCEPT !.entradas = @ + transaction.valorCentavos]
                 ELSE [existing EXCEPT !.saidas = @ + transaction.valorCentavos]
        updated == [added EXCEPT !.count = @ + 1]
    IN  IF idx = 0 THEN Append(map, updated) ELSE [map EXCEPT ![idx] = updated]

\* the body of transactions.forEach of aggregateByMonth for one transaction
AddMonth(map, transaction) ==
    LET mes == substring0(transaction.data, 7)
        idx == MapIndex(map, mes)
        existing == IF idx = 0
                    THEN [key |-> mes, entradas |-> 0, saidas |-> 0, count |-> 0]
                    ELSE map[idx]
        added == IF transaction.tipo = "Entrada"
                 THEN [existing EXCEPT !.entradas = @ + transaction.valorCentavos]
                 ELSE [existing EXCEPT !.saidas = @ + transaction.valorCentavos]
        updated == [added EXCEPT !.count = @ + 1]
    IN  IF idx = 0 THEN Append(map, updated) ELSE [map EXCEPT ![idx] = updated]

RECURSIVE MonthMapOf(_, _)
MonthMapOf(ts, map) ==
    IF Len(ts) = 0 THEN map ELSE MonthMapOf(Tail(ts), AddMonth(map, ts[1]))

\* .map(([mes, data]) => ({ mes, entradasCentavos, saidasCentavos, saldoCentavos, transactionCount }))
MonthlyAggregateOf(e) ==
    [mes |-> e.key, entradasCentavos |-> e.entradas, saidasCentavos |-> e.saidas,
     saldoCentavos |-> e.entradas - e.saidas, transactionCount |-> e.count]

\* .sort((a, b) => a.mes.localeCompare(b.mes)), stable
RECURSIVE InsertByMes(_, _)
InsertByMes(sorted, x) ==
    IF Len(sorted) = 0 THEN <<x>>
    ELSE IF localeCompare(sorted[1].mes, x.mes) <= 0
         THEN <<sorted[1]>> \o InsertByMes(Tail(sorted), x)
         ELSE <<x>> \o sorted

RECURSIVE SortByMes(_, _)
SortByMes(todo, sorted) ==
    IF Len(todo) = 0 THEN sorted
    ELSE SortByMes(Tail(todo), InsertByMes(sorted, todo[1]))

aggregateByMonth(ts) ==
    LET map == MonthMapOf(ts, <<>>)
    IN  SortByMes([k \in 1..Len(map) |-> MonthlyAggregateOf(map[k])], <<>>)

\* .sort((a, b) => b.saidasCentavos - a.saidasCentavos), stable
RECURSIVE InsertBySaidasDesc(_, _)
InsertBySaidasDesc(sorted, x) ==
    IF Len(sorted) = 0 THEN <<x>>
    ELSE IF sorted[1].saidasCentavos >= x.saidasCentavos
         THEN <<sorted[1]>> \o InsertBySaidasDesc(Tail(sorted), x)
         ELSE <<x>> \o sorted

RECURSIVE SortBySaidasDesc(_, _)
SortBySaidasDesc(todo, sorted) ==
    IF Len(todo) = 0 THEN sorted
    ELSE SortBySaidasDesc(Tail(todo), InsertBySaidasDesc(sorted, todo[1]))

\* categorias.filter(cat => cat.tipo === 'saida').sort(...).slice(0, 5)
TopCategorias(categorias) ==
    LET saidas == SortByTotalDesc(SelectSeq(categorias, LAMBDA c : c.tipo = "saida"), <<>>)
    IN  SubSeq(saidas, 1, IF Len(saidas) < TopN THEN Len(saidas) ELSE TopN)

\* the monthly array after step 5 of aggregateTransactions: Array.prototype.sort
\* sorts the array `meses` itself, and that same array is returned
MesesAfterMesMaisCaro(meses) ==
    IF Len(meses) > 0 THEN SortBySaidasDesc(meses, <<>>) ELSE meses

aggregateTransactions(ts, mesAtual) ==
    LET totalEntradasCentavos == TotalPorTipo(ts, "Entrada")
        totalSaidasCentavos == TotalPorTipo(ts, "Saída")
        saldoCentavos == totalEntradasCentavos - totalSaidasCentavos
        categorias == aggregateByCategory(ts, totalEntradasCentavos, totalSaidasCentavos)
        meses == aggregateByMonth(ts)
        topCategorias == TopCategorias(categorias)
        mesesSorted == MesesAfterMesMaisCaro(meses)
        mesMaisCaro == IF Len(meses) > 0 THEN mesesSorted[1].mes ELSE mesAtual
    IN  [totalEntradasCentavos |-> totalEntradasCentavos,
         totalSaidasCentavos |-> totalSaidasCentavos,
         saldoCentavos |-> saldoCentavos,
         categorias |-> categorias,
         meses |-> mesesSorted,
         topCategorias |-> topCategorias,
         mesMaisCaro |-> mesMaisCaro]

(***************************************************************************)
(* utils/aggregate.ts: generateRecommendations.  A recommendation is its   *)
(* tipo and its titulo, the titulo as the list of its text parts; the      *)
(* descricao and impacto texts are left out.  Percentages are compared as  *)
(* exact quotients.                                                        *)
(***************************************************************************)
\* percentual > limit
PercentualAbove(percentual, limit) == percentual.num > limit * percentual.den

\* mutant of HighSpendNote: the warning is pushed whatever the percentage
HighSpendNote_NoThreshold(agg) ==
    IF Len(agg.topCategorias) > 0
    THEN << [tipo |-> "otimizacao",
             titulo |-> <<"Gastos Elevados em ", agg.topCategorias[1].categoria>>] >>
    ELSE <<>>

\* 1. Categoria com maior gasto
HighSpendNote(agg) ==
    IF Len(agg.topCategorias) > 0 /\ PercentualAbove(agg.topCategorias[1].percentual, 40)
    THEN << [tipo |-> "otimizacao",
             titulo |-> <<"Gastos Elevados em ", agg.topCategorias[1].categoria>>] >>
    ELSE <<>>

\* 2. Analise de saldo
BalanceNote(agg) ==
    IF agg.saldoCentavos > 0
    THEN << [tipo |-> "oportunidade", titulo |-> <<"Excelente Controle Financeiro">>] >>
    ELSE << [tipo |-> "alerta", titulo |-> <<"Atenção ao Saldo Negativo">>] >>

\* crescimentoGastos > 15, crescimentoGastos being
\* ((ultimo - penultimo) / penultimo) * 100: Infinity when penultimo is 0 and
\* ultimo is not, NaN (greater and smaller than nothing) when both are 0
CrescimentoAbove15(ultimo, penultimo) ==
    IF penultimo = 0 THEN ultimo > 0
    ELSE (ultimo - penultimo) * 100 > 15 * penultimo

\* crescimentoGastos < -10
CrescimentoBelowMinus10(ultimo, penultimo) ==
    penultimo > 0 /\ (ultimo - penultimo) * 100 < (0 - 10) * penultimo

\* 3. Analise de tendencia mensal: the last two entries of aggregation.meses
TrendNote(agg) ==
    IF Len(agg.meses) >= 2
    THEN LET ultimoMes == agg.meses[Len(agg.meses)]
             penultimoMes == agg.meses[Len(agg.meses) - 1]
         IN  IF CrescimentoAbove15(ultimoMes.saidasCentavos, penultimoMes.saidasCentavos)
             THEN << [tipo |-> "alerta", titulo |-> <<"Crescimento de Gastos">>] >>
             ELSE IF CrescimentoBelowMinus10(ultimoMes.saidasCentavos, penultimoMes.saidasCentavos)
             THEN << [tipo |-> "oportunidade", titulo |-> <<"Redução de Gastos">>] >>
             ELSE <<>>
    ELSE <<>>

\* recomendacoes.slice(0, 3)
generateRecommendations(agg) ==
    LET recomendacoes == HighSpendNote(agg) \o BalanceNote(agg) \o TrendNote(agg)
    IN  SubSeq(recomendacoes, 1, IF Len(recomendacoes) < 3 THEN Len(recomendacoes) ELSE 3)

\* the AggregationResult after generateRecommendations(aggregation): the
\* function reads topCategorias[0], saldoCentavos and meses and writes to none
AggregationAfter(agg) == agg

(***************************************************************************)
(* The aggregation engine called on a list of canonical Transactions.      *)
(* The lists are those the builder can produce: valorCentavos >= 0, an     *)
(* 'Entrada' has a strictly positive amount (it comes from a negative      *)
(* parsed value), categoriaPath has at least one segment, data is          *)
(* YYYY-MM-DD.                                                             *)
(***************************************************************************)
alimentacao == <<"a", "l", "i", "m", "e", "n", "t", "a", "c", "a", "o">>
transporte == <<"t", "r", "a", "n", "s", "p", "o", "r", "t", "e">>
apps == <<"a", "p", "p", "s">>
uber == <<"u", "b", "e", "r">>

TxPaths == { <<alimentacao>>, <<transporte, apps>>, <<transporte, apps, uber>> }

TxDatas == { <<"2", "0", "2", "4", "-", "0", "1", "-", "1", "5">>,
            <<"2", "0", "2", "4", "-", "0", "2", "-", "1", "0">> }

\* a second day of January
OutroDia == <<"2", "0", "2", "4", "-", "0", "1", "-", "2", "0">>

\* (tipo, valorCentavos) of a built Transaction
TxValores == { <<"Saída", 0>>, <<"Saída", 2000>>, <<"Saída", 10000>>, <<"Entrada", 2000>> }

\* the current month, new Date().toISOString().substring(0, 7): any month
MesesAtuais == { <<"2", "0", "2", "6", "-", "1", "1">>, <<"2", "0", "2", "3", "-", "1", "2">> }

TxDomain ==
    { [tipo |-> v[1], valorCentavos |-> v[2], categoriaPath |-> p, data |-> d] :
        v \in TxValores, p \in TxPaths, d \in TxDatas }
    \cup
    { [tipo |-> v[1], valorCentavos |-> v[2], categoriaPath |-> <<alimentacao>>,
       data |-> OutroDia] : v \in { <<"Saída", 10000>>, <<"Entrada", 2000>> } }

InitAggregate ==
    /\ NoAnalysis
    /\ pc = "start"
    /\ \E n \in 0..MaxTx : transactions \in [1..n -> TxDomain]
    /\ aggregation = NoValue
    /\ rawTransactions = <<>>
    /\ valor = <<>>
    /\ centavos = NoValue
    /\ hoje = NoValue
    /\ arg = NoValue
    /\ ret = NoValue

\* const aggregation = aggregateTransactions(allTransactions)
Aggregate ==
    /\ pc = "start"
    /\ \E mesAtual \in MesesAtuais :
          aggregation' = aggregateTransactions(transactions, mesAtual)
    /\ pc' = "aggregated"
    /\ UNCHANGED <<arg, ret, valor, centavos, rawTransactions, transactions, hoje>>
    /\ UNCHANGED <<analysisVars, streamVars, clientVars>>

NextAggregate == Aggregate

SpecAggregate == InitAggregate /\ [][NextAggregate]_vars

(***************************************************************************)
(* generateFinancialInsights' call of generateRecommendations on the       *)
(* result of the aggregation (aggregate.ts 227).                           *)
(***************************************************************************)
Recommend ==
    /\ pc = "aggregated"
    /\ ret' = generateRecommendations(aggregation)
    /\ aggregation' = AggregationAfter(aggregation)
    /\ arg' = aggregation
    /\ pc' = "recommended"
    /\ UNCHANGED <<hoje, valor, centavos, rawTransactions, transactions>>
    /\ UNCHANGED <<analysisVars, streamVars, clientVars>>

\* lists of transactions in three top-level categories and three months, with
\* an inflow larger than any two outflows
MaxTxRecommend == 3

moradia == <<"m", "o", "r", "a", "d", "i", "a">>

RecommendDatas ==
    { <<"2", "0", "2", "4", "-", "0", "1", "-", "1", "5">>,
      <<"2", "0", "2", "4", "-", "0", "2", "-", "1", "0">>,
      <<"2", "0", "2", "4", "-", "0", "3", "-", "0", "5">> }

RecommendValores == { <<"Saída", 2000>>, <<"Saída", 10000>>, <<"Entrada", 30000>> }

RecommendDomain ==
    { [tipo |-> v[1], valorCentavos |-> v[2], categoriaPath |-> <<c>>, data |-> d] :
        v \in RecommendValores, c \in {alimentacao, transporte, moradia}, d \in RecommendDatas }

InitRecommend ==
    /\ NoAnalysis
    /\ pc = "start"
    /\ \E n \in 0..MaxTxRecommend : transactions \in [1..n -> RecommendDomain]
    /\ aggregation = NoValue
    /\ hoje = NoValue
    /\ arg = NoValue
    /\ ret = NoValue
    /\ valor = <<>>
    /\ centavos = NoValue
    /\ rawTransactions = <<>>

NextRecommend == Aggregate \/ Recommend

SpecRecommend == InitRecommend /\ [][NextRecommend]_vars

(***************************************************************************)
(* The aggregation engine called twice on the same list.  arg is the list  *)
(* as the caller passed it, transactions the caller's array after the      *)
(* calls, aggregation and ret the two results; the current month may       *)
(* differ between the calls.                                               *)
(***************************************************************************)
MaxTxRepeat == 2

\* mutant of TransactionsAfter: the call leaves the caller's array reversed
TransactionsAfter_Reversed(ts) == [i \in 1..Len(ts) |-> ts[Len(ts) + 1 - i]]

\* the caller's array after aggregateTransactions(transactions): filter, reduce,
\* forEach and substring only read it, and the arrays that are sorted
\* (aggregate.ts 72, 77, 161, 197) are arrays the call has built itself
TransactionsAfter(ts) == ts

InitRepeat ==
    /\ NoAnalysis
    /\ pc = "start"
    /\ \E n \in 0..MaxTxRepeat : transactions \in [1..n -> TxDomain]
    /\ arg = transactions
    /\ ret = NoValue
    /\ aggregation = NoValue
    /\ hoje = NoValue
    /\ valor = <<>>
    /\ centavos = NoValue
    /\ rawTransactions = <<>>

FirstCall ==
    /\ pc = "start"
    /\ \E mesAtual \in MesesAtuais :
          aggregation' = aggregateTransactions(transactions, mesAtual)
    /\ transactions' = TransactionsAfter(transactions)
    /\ pc' = "calledOnce"
    /\ UNCHANGED <<arg, ret, hoje, valor, centavos, rawTransactions>>
    /\ UNCHANGED <<analysisVars, streamVars, clientVars>>

SecondCall ==
    /\ pc = "calledOnce"
    /\ \E mesAtual \in MesesAtuais :
          ret' = aggregateTransactions(transactions, mesAtual)
    /\ transactions' = TransactionsAfter(transactions)
    /\ pc' = "calledTwice"
    /\ UNCHANGED <<arg, aggregation, hoje, valor, centavos, rawTransactions>>
    /\ UNCHANGED <<analysisVars, streamVars, clientVars>>

NextRepeat == FirstCall \/ SecondCall

SpecRepeat == InitRepeat /\ [][NextRepeat]_vars

(***************************************************************************)
(* The value parser called on an amount string.  The strings are all the   *)
(* concatenations of at most MaxTokens pieces: digit groups of one, two    *)
(* and three digits, the two separators, the two sign conventions, the     *)
(* currency symbol and a space, with at most MaxDigits digits in all.      *)
(***************************************************************************)
ValorTokens ==
    { <<"1">>, <<"0", "5">>, <<"0", "0", "0">>, <<",">>, <<".">>,
      <<"-">>, <<"(">>, <<")">>, <<"R", "$">>, <<" ">> }

RECURSIVE Concat(_)
Concat(pieces) ==
    IF Len(pieces) = 0 THEN <<>> ELSE pieces[1] \o Concat(Tail(pieces))

DigitCount(s) == Len(SelectSeq(s, LAMBDA c : c \in Digits))

InitParse ==
    /\ NoAnalysis
    /\ pc = "start"
    /\ \E n \in 0..MaxTokens : \E pieces \in [1..n -> ValorTokens] : valor = Concat(pieces)
    /\ DigitCount(valor) <= MaxDigits
    /\ centavos = NoValue
    /\ rawTransactions = <<>>
    /\ transactions = <<>>
    /\ aggregation = NoValue
    /\ hoje = NoValue
    /\ arg = NoValue
    /\ ret = NoValue

\* const valorCentavos = parseValorBrasileiro(raw.valorOriginal)
Parse ==
    /\ pc = "start"
    /\ centavos' = parseValorBrasileiro(valor)
    /\ pc' = "parsed"
    /\ UNCHANGED <<arg, ret, valor, rawTransactions, transactions, aggregation, hoje>>
    /\ UNCHANGED <<analysisVars, streamVars, clientVars>>

NextParse == Parse

SpecParse == InitParse /\ [][NextParse]_vars

(***************************************************************************)
(* The value parser called on any argument: the amount strings of          *)
(* SpecParse, well-formed or not, null, undefined, and numbers given in    *)
(* thousandths (no number lies halfway between two cents, where the binary *)
(* product valor * 100 decides the rounding).                              *)
(***************************************************************************)
NumberInputs == { 0, 1000, 69990, 1994, 1996, 0 - 20500, 0 - 2506, 0 - 4 }

ParseInputs ==
    { [type |-> "null"], [type |-> "undefined"] }
    \cup { [type |-> "number", thousandths |-> n] : n \in NumberInputs }

InitParseAny ==
    /\ NoAnalysis
    /\ pc = "start"
    /\ \/ valor \in ParseInputs
       \/ \E n \in 0..MaxTokens : \E pieces \in [1..n -> ValorTokens] :
             /\ DigitCount(Concat(pieces)) <= MaxDigits
             /\ valor = [type |-> "string", text |-> Concat(pieces)]
    /\ centavos = NoValue
    /\ rawTransactions = <<>>
    /\ transactions = <<>>
    /\ aggregation = NoValue
    /\ hoje = NoValue
    /\ arg = NoValue
    /\ ret = NoValue

\* parseValorBrasileiro(valor)
ParseAny ==
    /\ pc = "start"
    /\ centavos' = parseValorBrasileiroAny(valor)
    /\ pc' = "parsed"
    /\ UNCHANGED <<arg, ret, valor, rawTransactions, transactions, aggregation, hoje>>
    /\ UNCHANGED <<analysisVars, streamVars, clientVars>>

NextParseAny == ParseAny

SpecParseAny == InitParseAny /\ [][NextParseAny]_vars

(***************************************************************************)
(* The run of analyzeCSVWithAI after the classification (openai.ts         *)
(* 526-531): the classified records are converted, then aggregated.  The   *)
(* records are the rows of a small card statement: purchases, refunds      *)
(* (negative or parenthesized amounts), settlement rows carrying the       *)
(* marker in empresa or in descricao, a row with empty fields, a row whose *)
(* empresa holds only part of the marker; the tipo hints of the classifier *)
(* are sometimes wrong.                                                    *)
(***************************************************************************)
RawDomain ==
    { [tipo |-> "Saída",
       valorOriginal |-> <<"1", "0", "0", ".", "0", "0">>,
       categoria |-> <<"A", "l", "i", "m", "e", "n", "t", "a", "ç", "ã", "o">>,
       empresa |-> <<"P", "a", "g", "a", "m", "e", "n", "t", "o", "s", " ", "V", "a", "l", "i", "d", "o", "s">>,
       descricao |-> <<"C", "o", "m", "p", "r", "a">>,
       data |-> <<"1", "5", "/", "0", "1", "/", "2", "0", "2", "4">>],
      [tipo |-> "Saída",
       valorOriginal |-> <<"-", "2", "0", ",", "0", "0">>,
       categoria |-> <<"A", "l", "i", "m", "e", "n", "t", "a", "ç", "ã", "o">>,
       empresa |-> <<"E", "x", "t", "r", "a">>,
       descricao |-> <<"E", "s", "t", "o", "r", "n", "o">>,
       data |-> <<"2", "0", "2", "4", "-", "0", "1", "-", "1", "6">>],
      [tipo |-> "Entrada",
       valorOriginal |-> <<"R", "$", " ", "2", "5", ",", "0", "0">>,
       categoria |-> <<"T", "r", "a", "n", "s", "p", "o", "r", "t", "e", " ", ">", " ", "A", "p", "p", "s", " ", ">", " ", "U", "b", "e", "r">>,
       empresa |-> <<"U", "b", "e", "r">>,
       descricao |-> <<"C", "o", "r", "r", "i", "d", "a">>,
       data |-> <<"1", "0", "/", "0", "2", "/", "2", "4">>],
      [tipo |-> "Saída",
       valorOriginal |-> <<"5", "0", "0", ".", "0", "0">>,
       categoria |-> <<"O", "u", "t", "r", "o", "s">>,
       empresa |-> <<"P", "a", "g", "a", "m", "e", "n", "t", "o", "s", " ", "V", "a", "l", "i", "d", "o", "s", " ", "N", "o", "r", "m", "a", "i", "s">>,
       descricao |-> <<"P", "a", "g", "a", "m", "e", "n", "t", "o", " ", "f", "a", "t", "u", "r", "a">>,
       data |-> <<"1", "0", "/", "0", "1", "/", "2", "0", "2", "4">>],
      [tipo |-> "Entrada",
       valorOriginal |-> <<"(", "8", "0", ",", "0", "0", ")">>,
       categoria |-> <<"O", "u", "t", "r", "o", "s">>,
       empresa |-> <<>>,
       descricao |-> <<"F", "A", "T", "U", "R", "A", " ", "P", "A", "G", "A", "M", "E", "N", "T", "O", "S", " ", "V", "A", "L", "I", "D", "O", "S", " ", "N", "O", "R", "M", "A", "I", "S">>,
       data |-> <<"0", "5", "/", "0", "1", "/", "2", "0", "2", "4">>],
      [tipo |-> "Entrada",
       valorOriginal |-> <<>>,
       categoria |-> <<>>,
       empresa |-> <<"P", "o", "s", "t", "o", " ", "S", "h", "e", "l", "l">>,
       descricao |-> <<>>,
       data |-> <<>>] }

\* the dates new Date() can give
Hojes == { <<"2", "0", "2", "6", "-", "1", "1", "-", "0", "3">>, <<"2", "0", "2", "3", "-", "1", "2", "-", "3", "1">> }

WithId(raw, i) ==
    [id |-> i, tipo |-> raw.tipo, valorOriginal |-> raw.valorOriginal,
     categoria |-> raw.categoria, empresa |-> raw.empresa,
     descricao |-> raw.descricao, data |-> raw.data]

Init ==
    /\ NoAnalysis
    /\ pc = "start"
    /\ \E n \in 0..MaxRaw : \E rows \in [1..n -> RawDomain] :
          rawTransactions = [i \in 1..n |-> WithId(rows[i], i)]
    /\ transactions = <<>>
    /\ aggregation = NoValue
    /\ hoje = NoValue
    /\ arg = NoValue
    /\ ret = NoValue
    /\ valor = <<>>
    /\ centavos = NoValue

\* const allTransactions = convertToTransactionData(allRawTransactions)
Convert ==
    /\ pc = "start"
    /\ \E h \in Hojes :
          /\ hoje' = h
          /\ transactions' = convertToTransactionData(rawTransactions, h)
    /\ pc' = "converted"
    /\ UNCHANGED <<arg, ret, valor, centavos, rawTransactions, aggregation>>
    /\ UNCHANGED <<analysisVars, streamVars, clientVars>>

\* const aggregation = aggregateTransactions(allTransactions)
AggregateBuilt ==
    /\ pc = "converted"
    /\ \E mesAtual \in MesesAtuais :
          aggregation' = aggregateTransactions(transactions, mesAtual)
    /\ pc' = "aggregated"
    /\ UNCHANGED <<arg, ret, valor, centavos, rawTransactions, transactions, hoje>>
    /\ UNCHANGED <<analysisVars, streamVars, clientVars>>

Next == Convert \/ AggregateBuilt

Spec == Init /\ [][Next]_vars

(***************************************************************************)
(* The date parser called on a date text.  The texts are all the           *)
(* concatenations of at most MaxDateTokens pieces: groups of one, two,     *)
(* three and four digits, the two separators, a space and a letter.        *)
(***************************************************************************)
MaxDateTokens == 5

DateTokens ==
    { <<"1">>, <<"0", "1">>, <<"1", "5">>, <<"7", "5">>, <<"2", "0", "2">>,
      <<"2", "0", "2", "4">>, <<"/">>, <<"-">>, <<" ">>, <<"a">> }

InitDate ==
    /\ NoAnalysis
    /\ pc = "start"
    /\ \E n \in 0..MaxDateTokens : \E pieces \in [1..n -> DateTokens] : arg = Concat(pieces)
    /\ ret = NoValue
    /\ hoje = NoValue
    /\ valor = <<>>
    /\ centavos = NoValue
    /\ rawTransactions = <<>>
    /\ transactions = <<>>
    /\ aggregation = NoValue

\* const data = parseDateBrasileira(raw.data)
ParseDate ==
    /\ pc = "start"
    /\ \E h \in Hojes :
          /\ hoje' = h
          /\ ret' = parseDateBrasileira(arg, h)
    /\ pc' = "dateParsed"
    /\ UNCHANGED <<arg, valor, centavos, rawTransactions, transactions, aggregation>>
    /\ UNCHANGED <<analysisVars, streamVars, clientVars>>

NextDate == ParseDate

SpecDate == InitDate /\ [][NextDate]_vars

(***************************************************************************)
(* The category helpers called on a category text.  The texts are all the  *)
(* concatenations of at most MaxCategoriaTokens characters: letters (upper *)
(* case, accented, lower case), a digit, a space, the three separators and *)
(* a punctuation mark.                                                     *)
(***************************************************************************)
MaxCategoriaTokens == 5

CategoriaTokens == { "A", "ç", "b", "1", " ", ">", "/", ":", "!" }

InitCategoria ==
    /\ NoAnalysis
    /\ pc = "start"
    /\ \E n \in 0..MaxCategoriaTokens : arg \in [1..n -> CategoriaTokens]
    /\ ret = NoValue
    /\ hoje = NoValue
    /\ valor = <<>>
    /\ centavos = NoValue
    /\ rawTransactions = <<>>
    /\ transactions = <<>>
    /\ aggregation = NoValue

\* normalizeCategoria(categoria)
Normalize ==
    /\ pc = "start"
    /\ ret' = normalizeCategoria(arg)
    /\ pc' = "normalized"
    /\ UNCHANGED <<arg, hoje, valor, centavos, rawTransactions, transactions, aggregation>>
    /\ UNCHANGED <<analysisVars, streamVars, clientVars>>

\* const categoriaPath = parseCategoriaPath(raw.categoria)
ParsePath ==
    /\ pc = "start"
    /\ ret' = parseCategoriaPath(arg)
    /\ pc' = "pathParsed"
    /\ UNCHANGED <<arg, hoje, valor, centavos, rawTransactions, transactions, aggregation>>
    /\ UNCHANGED <<analysisVars, streamVars, clientVars>>

NextCategoria == Normalize \/ ParsePath

SpecCategoria == InitCategoria /\ [][NextCategoria]_vars

(***************************************************************************)
(* Reference definitions the claims are stated with: sums and counts over  *)
(* the input list, stated over index sets and not as the code folds them.  *)
(***************************************************************************)
Aggregated == pc = "aggregated"

RECURSIVE SumValorAt(_, _)
SumValorAt(ts, I) ==
    IF I = {} THEN 0
    ELSE LET i == CHOOSE x \in I : TRUE
         IN  ts[i].valorCentavos + SumValorAt(ts, I \ {i})

RECURSIVE SumTotalAt(_, _)
SumTotalAt(cats, I) ==
    IF I = {} THEN 0
    ELSE LET i == CHOOSE x \in I : TRUE
         IN  cats[i].totalCentavos + SumTotalAt(cats, I \ {i})

\* p is a prefix of the path
StartsWith(path, p) == Len(p) <= Len(path) /\ SubSeq(path, 1, Len(p)) = p

\* 'Entrada' transactions feed 'entrada' entries, 'Saida' ones 'saida' entries
KindOf(tipo) == IF tipo = "Entrada" THEN "entrada" ELSE "saida"

\* the transactions of kind k (an entry kind) filed under prefix p
TxUnder(ts, p, k) ==
    { i \in DOMAIN ts : KindOf(ts[i].tipo) = k /\ StartsWith(ts[i].categoriaPath, p) }

\* every non-empty prefix of a path of the input
PrefixesOf(ts) ==
    UNION { { SubSeq(ts[i].categoriaPath, 1, n) : n \in 1..Len(ts[i].categoriaPath) } :
              i \in DOMAIN ts }

EntriesFor(cats, p, k) ==
    { i \in DOMAIN cats : cats[i].categoriaPath = p /\ cats[i].tipo = k }

\* C1: the balance is the inflow total minus the outflow total, each the integer
\* sum of valorCentavos over the transactions of its kind.
C1_SaldoIsEntradasMinusSaidas ==
    Aggregated =>
        LET e == SumValorAt(transactions, { i \in DOMAIN transactions : transactions[i].tipo = "Entrada" })
            s == SumValorAt(transactions, { i \in DOMAIN transactions : transactions[i].tipo = "Saída" })
        IN  /\ aggregation.totalEntradasCentavos = e
            /\ aggregation.totalSaidasCentavos = s
            /\ aggregation.saldoCentavos = e - s

C1_Witness ==
    /\ Aggregated
    /\ aggregation.totalEntradasCentavos > 0
    /\ aggregation.totalSaidasCentavos > aggregation.totalEntradasCentavos
    /\ aggregation.saldoCentavos < 0

\* C2: per kind, the depth-1 category entries add up to the grand total of the kind.
C2_TopLevelSumsToGrandTotal ==
    Aggregated =>
        LET cats == aggregation.categorias
            top(k) == { i \in DOMAIN cats : cats[i].tipo = k /\ Len(cats[i].categoriaPath) = 1 }
        IN  /\ SumTotalAt(cats, top("entrada")) = aggregation.totalEntradasCentavos
            /\ SumTotalAt(cats, top("saida")) = aggregation.totalSaidasCentavos

C2_Witness ==
    /\ Aggregated
    /\ \E i, j \in DOMAIN transactions :
          /\ transactions[i].tipo = "Saída" /\ transactions[i].valorCentavos > 0
          /\ Len(transactions[i].categoriaPath) = 3
          /\ transactions[j].tipo = "Saída" /\ transactions[j].valorCentavos > 0
          /\ Len(transactions[j].categoriaPath) = 1
    /\ \E i \in DOMAIN transactions : transactions[i].tipo = "Entrada"
    /\ Cardinality({ i \in DOMAIN aggregation.categorias :
                        Len(aggregation.categorias[i].categoriaPath) = 1 }) >= 3

\* the prefixes under which transactions of both kinds are filed
MixedPrefixes(ts) ==
    { p \in PrefixesOf(ts) : TxUnder(ts, p, "entrada") # {} /\ TxUnder(ts, p, "saida") # {} }

\* the two entries of prefix p, inflows and outflows summed apart
SeparateEntries(cats, ts, p) ==
    /\ Cardinality({ i \in DOMAIN cats : cats[i].categoriaPath = p }) = 2
    /\ \E i \in EntriesFor(cats, p, "saida") :
          cats[i].totalCentavos = SumValorAt(ts, TxUnder(ts, p, "saida"))
    /\ \E i \in EntriesFor(cats, p, "entrada") :
          cats[i].totalCentavos = SumValorAt(ts, TxUnder(ts, p, "entrada"))

C4_RollUpEntries ==
    Aggregated =>
        LET cats == aggregation.categorias
        IN  /\ \A i \in DOMAIN cats :
                  /\ cats[i].categoriaPath \in PrefixesOf(transactions)
                  /\ cats[i].categoria = Join(cats[i].categoriaPath, SepCategoria)
                  /\ cats[i].totalCentavos > 0
                  /\ cats[i].totalCentavos =
                        SumValorAt(transactions,
                                   TxUnder(transactions, cats[i].categoriaPath, cats[i].tipo))
            /\ \A p \in PrefixesOf(transactions) : \A k \in {"entrada", "saida"} :
                  Cardinality(EntriesFor(cats, p, k)) =
                      IF SumValorAt(transactions, TxUnder(transactions, p, k)) > 0 THEN 1 ELSE 0

\* a transaction under ['transporte','apps','uber'] counted in full at its three levels
C4_Witness ==
    /\ Aggregated
    /\ Len(transactions) = 1
    /\ transactions[1].categoriaPath = <<transporte, apps, uber>>
    /\ transactions[1].valorCentavos = 2000
    /\ Len(aggregation.categorias) = 3
    /\ \A i \in 1..3 : aggregation.categorias[i].totalCentavos = 2000
    /\ { aggregation.categorias[i].categoria : i \in 1..3 } =
          { transporte,
            transporte \o SepCategoria \o apps,
            transporte \o SepCategoria \o apps \o SepCategoria \o uber }

\* C5: the monthly table of the result is in ascending order of its month key.
C5_MesesAscending ==
    Aggregated =>
        \A i, j \in DOMAIN aggregation.meses :
            i < j => localeCompare(aggregation.meses[i].mes, aggregation.meses[j].mes) < 0

\* the months of the input
MonthsOf(ts) == { substring0(ts[i].data, 7) : i \in DOMAIN ts }

TxOfMonth(ts, m, tipos) ==
    { i \in DOMAIN ts : substring0(ts[i].data, 7) = m /\ ts[i].tipo \in tipos }

RECURSIVE SumFieldAt(_, _, _)
SumFieldAt(ms, I, field) ==
    IF I = {} THEN 0
    ELSE LET i == CHOOSE x \in I : TRUE
         IN  ms[i][field] + SumFieldAt(ms, I \ {i}, field)

\* C6: one monthly entry per distinct 7-character date prefix, each with the sums
\* and the count of that month's transactions, so the months add up to the
\* grand totals and to the number of transactions.
C6_MonthlyReconciles ==
    Aggregated =>
        LET ms == aggregation.meses
        IN  /\ { ms[i].mes : i \in DOMAIN ms } = MonthsOf(transactions)
            /\ Len(ms) = Cardinality(MonthsOf(transactions))
            /\ \A i \in DOMAIN ms :
                  /\ ms[i].entradasCentavos =
                        SumValorAt(transactions, TxOfMonth(transactions, ms[i].mes, {"Entrada"}))
                  /\ ms[i].saidasCentavos =
                        SumValorAt(transactions, TxOfMonth(transactions, ms[i].mes, {"Saída"}))
                  /\ ms[i].saldoCentavos = ms[i].entradasCentavos - ms[i].saidasCentavos
                  /\ ms[i].transactionCount =
                        Cardinality(TxOfMonth(transactions, ms[i].mes, {"Entrada", "Saída"}))
            /\ SumFieldAt(ms, DOMAIN ms, "entradasCentavos") = aggregation.totalEntradasCentavos
            /\ SumFieldAt(ms, DOMAIN ms, "saidasCentavos") = aggregation.totalSaidasCentavos
            /\ SumFieldAt(ms, DOMAIN ms, "transactionCount") = Len(transactions)

\* two days of one month and a day of another, inflows and outflows
C6_Witness ==
    /\ Aggregated
    /\ Len(aggregation.meses) = 2
    /\ \E i \in DOMAIN aggregation.meses :
          /\ aggregation.meses[i].transactionCount = 2
          /\ aggregation.meses[i].entradasCentavos > 0
          /\ aggregation.meses[i].saidasCentavos > 0
    /\ \E i, j \in DOMAIN transactions :
          /\ transactions[i].data # transactions[j].data
          /\ substring0(transactions[i].data, 7) = substring0(transactions[j].data, 7)

(***************************************************************************)
(* Reference definitions for the amount conventions of the claims.         *)
(***************************************************************************)
Parsed == pc = "parsed"

AllDigits(s) == \A i \in 1..Len(s) : s[i] \in Digits

\* digits in groups: one or more digits, or a first group of digits followed by
\* groups of exactly three digits, each introduced by the separator sep
IsGrouped(s, sep) ==
    /\ Len(s) > 0
    /\ \A i \in 1..Len(s) : s[i] \in Digits \cup {sep}
    /\ s[1] \in Digits
    /\ \A i \in 1..Len(s) :
          s[i] = sep =>
              /\ i + 3 <= Len(s)
              /\ \A j \in (i + 1)..(i + 3) : s[j] \in Digits
              /\ (i + 3 = Len(s) \/ s[i + 4] = sep)

\* the number written by a string of digits
RECURSIVE NumberOf(_)
NumberOf(s) ==
    IF Len(s) = 0 THEN 0
    ELSE NumberOf(SubSeq(s, 1, Len(s) - 1)) * 10 + DigitVal(s[Len(s)])

\* the cents written by at most two fraction digits, right-padded with zeros
FractionOf(f) ==
    IF Len(f) = 0 THEN 0
    ELSE IF Len(f) = 1 THEN DigitVal(f[1]) * 10
    ELSE DigitVal(f[1]) * 10 + DigitVal(f[2])

\* a string without its leading spaces
RECURSIVE SkipSpaces(_)
SkipSpaces(s) == IF Len(s) > 0 /\ s[1] = " " THEN SkipSpaces(Tail(s)) ELSE s

\* a string without an optional prefix of spaces, 'R$' and spaces
SkipMoeda(s) ==
    LET t == SkipSpaces(s)
    IN  IF Len(t) >= 2 /\ t[1] = "R" /\ t[2] = "$"
        THEN SkipSpaces(SubSeq(t, 3, Len(t)))
        ELSE t

\* the positions of the separator c in s
PositionsOf(s, c) == { i \in 1..Len(s) : s[i] = c }

\* Brazilian convention: [R$ ] digits grouped by periods [, at most two digits]
IsBrazilian(s) ==
    LET b == SkipMoeda(s)
        commas == PositionsOf(b, ",")
    IN  \/ commas = {} /\ IsGrouped(b, ".")
        \/ /\ Cardinality(commas) = 1
           /\ LET k == CHOOSE i \in commas : TRUE
              IN  /\ IsGrouped(SubSeq(b, 1, k - 1), ".")
                  /\ Len(b) - k <= 2
                  /\ AllDigits(SubSeq(b, k + 1, Len(b)))

BrazilianValue(s) ==
    LET b == SkipMoeda(s)
        commas == PositionsOf(b, ",")
        k == IF commas = {} THEN Len(b) + 1 ELSE CHOOSE i \in commas : TRUE
    IN  NumberOf(SelectSeq(SubSeq(b, 1, k - 1), LAMBDA c : c \in Digits)) * 100
        + FractionOf(SubSeq(b, k + 1, Len(b)))

\* US convention: [-][R$ ] digits grouped by commas . one or two digits
IsUS(s) ==
    LET u == IF Len(s) > 0 /\ s[1] = "-" THEN Tail(s) ELSE s
        b == SkipMoeda(u)
        dots == PositionsOf(b, ".")
    IN  /\ Cardinality(dots) = 1
        /\ LET k == CHOOSE i \in dots : TRUE
           IN  /\ IsGrouped(SubSeq(b, 1, k - 1), ",")
               /\ Len(b) - k \in {1, 2}
               /\ AllDigits(SubSeq(b, k + 1, Len(b)))

USValue(s) ==
    LET neg == Len(s) > 0 /\ s[1] = "-"
        b == SkipMoeda(IF neg THEN Tail(s) ELSE s)
        k == CHOOSE i \in PositionsOf(b, ".") : TRUE
        v == NumberOf(SelectSeq(SubSeq(b, 1, k - 1), LAMBDA c : c \in Digits)) * 100
             + FractionOf(SubSeq(b, k + 1, Len(b)))
    IN  IF neg THEN 0 - v ELSE v

\* C9: a US-convention amount (commas as thousands separators, a period and one
\* or two fraction digits, optional leading minus or currency symbol) parses to
\* its integer part without the commas times 100 plus the padded fraction.
C9_USConvention ==
    (Parsed /\ IsUS(valor)) => centavos = USValue(valor)

\* C10: a Brazilian-convention amount (periods as thousands separators, an
\* optional comma with at most two fraction digits, optional 'R$' prefix)
\* parses to its integer part without the periods times 100 plus the padded
\* fraction; digits only are whole units.
C10_BrazilianConvention ==
    (Parsed /\ IsBrazilian(valor)) => centavos = BrazilianValue(valor)

\* '1.000,05' gives 100005
C10_Witness ==
    /\ Parsed
    /\ valor = <<"1", ".", "0", "0", "0", ",", "0", "5">>
    /\ IsBrazilian(valor)
    /\ centavos = 100005

(***************************************************************************)
(* Reference definitions for the builder.                                  *)
(***************************************************************************)
Built == pc \in {"converted", "aggregated"}

\* m occurs in s, letter case ignored (m is in lower case)
ContainsIgnoringCase(s, m) ==
    \E i \in 0..(Len(s) - Len(m)) :
        \A j \in 1..Len(m) : s[i + j] = m[j] \/ Lower(s[i + j]) = m[j]

HasMarker(raw) ==
    ContainsIgnoringCase(raw.empresa, Marker) \/ ContainsIgnoringCase(raw.descricao, Marker)

\* the records without the settlement rows, in their order
RECURSIVE WithoutMarkerRows(_)
WithoutMarkerRows(raws) ==
    IF Len(raws) = 0 THEN <<>>
    ELSE (IF HasMarker(raws[1]) THEN <<>> ELSE <<raws[1]>>) \o WithoutMarkerRows(Tail(raws))

RECURSIVE SumMagnitudes(_)
SumMagnitudes(raws) ==
    IF Len(raws) = 0 THEN 0
    ELSE LET v == parseValorBrasileiro(raws[1].valorOriginal)
         IN  (IF v < 0 THEN 0 - v ELSE v) + SumMagnitudes(Tail(raws))

\* C7: a record with the settlement marker in empresa or descricao (any letter
\* case) gives no Transaction and every other record exactly one, in order; the
\* built list, and the totals, categories and months computed from it, are
\* those of the input without the marker records.
C7_MarkerRowsExcluded ==
    Built =>
        LET keptIds == { rawTransactions[i].id :
                           i \in { j \in DOMAIN rawTransactions : ~HasMarker(rawTransactions[j]) } }
            clean == WithoutMarkerRows(rawTransactions)
        IN  /\ Len(transactions) = Cardinality(keptIds)
            /\ { transactions[k].id : k \in DOMAIN transactions } = keptIds
            /\ \A k, l \in DOMAIN transactions : k < l => transactions[k].id < transactions[l].id
            /\ transactions = convertToTransactionData(clean, hoje)
            /\ pc = "aggregated" =>
                  /\ aggregation.totalEntradasCentavos + aggregation.totalSaidasCentavos
                        = SumMagnitudes(clean)
                  /\ SumFieldAt(aggregation.meses, DOMAIN aggregation.meses, "transactionCount")
                        = Len(clean)
                  /\ \E m \in MesesAtuais :
                        aggregation = aggregateTransactions(convertToTransactionData(clean, hoje), m)

\* five rows, one of them a settlement row: four Transactions, and the 500.00 of
\* the settlement row in no total
C7_Witness ==
    /\ pc = "aggregated"
    /\ Len(rawTransactions) = 5
    /\ Cardinality({ i \in 1..5 : HasMarker(rawTransactions[i]) }) = 1
    /\ \E i \in 1..5 :
          /\ rawTransactions[i].empresa # <<>>
          /\ HasMarker(rawTransactions[i])
    /\ Len(transactions) = 4
    /\ aggregation.totalSaidasCentavos = 10000 + 2500
    /\ aggregation.totalEntradasCentavos = 2000

\* the record a Transaction was built from
RawOf(t) == CHOOSE r \in { rawTransactions[i] : i \in DOMAIN rawTransactions } : r.id = t.id

OtherTipo(tipo) == IF tipo = "Entrada" THEN "Saída" ELSE "Entrada"

\* the records with every tipo hint turned into the other one
FlipHints(raws) == [i \in 1..Len(raws) |-> [raws[i] EXCEPT !.tipo = OtherTipo(@)]]

\* C8: a built Transaction is an 'Entrada' exactly when the parsed amount is
\* strictly negative and a 'Saída' otherwise (zero included), its valorCentavos
\* is the absolute value of the parsed amount, and the classifier's tipo hint
\* changes nothing.
C8_TipoFromSign ==
    Built =>
        /\ \A k \in DOMAIN transactions :
              LET v == parseValorBrasileiro(RawOf(transactions[k]).valorOriginal)
              IN  /\ v < 0 => (transactions[k].tipo = "Entrada" /\ transactions[k].valorCentavos = 0 - v)
                  /\ v >= 0 => (transactions[k].tipo = "Saída" /\ transactions[k].valorCentavos = v)
                  /\ transactions[k].valorCentavos >= 0
        /\ convertToTransactionData(FlipHints(rawTransactions), hoje) = transactions

\* a refund the classifier called 'Saída', a purchase it called 'Entrada' and a
\* record whose amount parses to zero
C8_Witness ==
    /\ Built
    /\ \E k \in DOMAIN transactions :
          /\ RawOf(transactions[k]).tipo = "Saída"
          /\ transactions[k].tipo = "Entrada"
          /\ transactions[k].valorCentavos = 2000
    /\ \E k \in DOMAIN transactions :
          /\ RawOf(transactions[k]).tipo = "Entrada"
          /\ transactions[k].tipo = "Saída"
          /\ transactions[k].valorCentavos = 2500
    /\ \E k \in DOMAIN transactions :
          /\ RawOf(transactions[k]).tipo = "Entrada"
          /\ transactions[k].tipo = "Saída"
          /\ transactions[k].valorCentavos = 0

(***************************************************************************)
(* Reference definitions for the period as a separator.                    *)
(***************************************************************************)
\* [R$ ] groups of digits separated by periods, with at least one period; the
\* last group may be empty
IsPeriodAmount(s) ==
    LET b == SkipMoeda(s)
    IN  /\ Len(b) > 0
        /\ \A i \in 1..Len(b) : b[i] \in Digits \cup {"."}
        /\ b[1] \in Digits
        /\ PositionsOf(b, ".") # {}
        /\ \A i \in PositionsOf(b, ".") : i + 1 \notin PositionsOf(b, ".")

\* the text after the last period
AfterLastPeriod(s) ==
    LET b == SkipMoeda(s)
        k == CHOOSE i \in PositionsOf(b, ".") : \A j \in PositionsOf(b, ".") : j <= i
    IN  SubSeq(b, k + 1, Len(b))

\* C11: without a comma the text after the last period decides: at most two
\* characters are the fraction (the result modulo 100 is that text right-padded
\* to two digits, several periods or not), more than two mean no fraction and
\* the result is all the digits times 100.
C11_LastPeriodDecides ==
    (Parsed /\ IsPeriodAmount(valor)) =>
        IF Len(AfterLastPeriod(valor)) <= 2
        THEN centavos % 100 = FractionOf(AfterLastPeriod(valor))
        ELSE centavos = NumberOf(SelectSeq(valor, LAMBDA c : c \in Digits)) * 100

(***************************************************************************)
(* Reference definitions for the sign conventions.                         *)
(***************************************************************************)
\* an amount text without a minus sign and without parentheses
IsUnsigned(u) == \A i \in 1..Len(u) : u[i] \notin {"-", "(", ")"}

\* C12: for an unsigned amount text u, '-' + u, '(' + u + ')' and '(-' + u + ')'
\* all parse to the negation of what u parses to: the two conventions give one
\* sign and never cancel each other.
C12_OneSign ==
    (Parsed /\ IsUnsigned(valor)) =>
        /\ parseValorBrasileiro(<<"-">> \o valor) = 0 - centavos
        /\ parseValorBrasileiro(<<"(">> \o valor \o <<")">>) = 0 - centavos
        /\ parseValorBrasileiro(<<"(", "-">> \o valor \o <<")">>) = 0 - centavos

\* 'R$ 1,05' gives 105 and '(-R$ 1,05)' gives -105
C12_Witness ==
    /\ Parsed
    /\ valor = <<"R", "$", " ", "1", ",", "0", "5">>
    /\ IsUnsigned(valor)
    /\ centavos = 105
    /\ parseValorBrasileiro(<<"(", "-">> \o valor \o <<")">>) = 0 - 105

(***************************************************************************)
(* Reference definitions for the arguments of the value parser.            *)
(***************************************************************************)
\* the empty string, null, undefined and the number 0
IsNothing(input) ==
    \/ input.type \in {"null", "undefined"}
    \/ input.type = "string" /\ input.text = <<>>
    \/ input.type = "number" /\ input.thousandths = 0

\* C13: the value parser returns an integer for every argument, a malformed
\* string included, and never throws; the empty string, null, undefined and the
\* number 0 give 0.
C13_TotalAndLenient ==
    Parsed =>
        /\ centavos.threw = "nothing"
        /\ centavos.value \in Int
        /\ IsNothing(valor) => centavos.value = 0

\* null gives 0, and so does a string without any digit
C13_Witness ==
    /\ Parsed
    /\ centavos = Returned(0)
    /\ \/ valor = [type |-> "null"]
       \/ valor = [type |-> "string", text |-> <<")", ",", ".", "-", "(">>]

(***************************************************************************)
(* Reference definitions for the round trip of parser and formatter.       *)
(***************************************************************************)
\* a well-formed amount: an optional minus sign before a Brazilian-convention
\* or a US-convention amount
Unsigned(s) == IF Len(s) > 0 /\ s[1] = "-" THEN Tail(s) ELSE s

IsWellFormed(s) == IsBrazilian(Unsigned(s)) \/ IsUS(s)

\* the cents a well-formed amount writes, without its sign
MagnitudeOf(s) ==
    IF IsBrazilian(Unsigned(s)) THEN BrazilianValue(Unsigned(s))
    ELSE IF USValue(s) < 0 THEN 0 - USValue(s) ELSE USValue(s)

\* the cents a formatted amount shows: its digits, the punctuation ignored
ShownMagnitude(formatted) == NumberOf(SelectSeq(formatted, LAMBDA c : c \in Digits))

ShownNegative(formatted) == Len(formatted) > 0 /\ formatted[1] = "-"

\* C14: parsing a formatted number of cents gives the cents back, and formatting
\* what a well-formed amount string parses to shows the magnitude and the sign
\* of the string.
C14_RoundTrip ==
    Parsed =>
        /\ parseValorBrasileiro(formatarValorBrasileiro(centavos)) = centavos
        /\ IsWellFormed(valor) =>
              /\ ShownMagnitude(formatarValorBrasileiro(centavos)) = MagnitudeOf(valor)
              /\ MagnitudeOf(valor) # 0 =>
                    (ShownNegative(formatarValorBrasileiro(centavos)) <=> valor[1] = "-")

(***************************************************************************)
(* Reference definitions for the dates.                                    *)
(***************************************************************************)
DateParsed == pc = "dateParsed"

\* YYYY-MM-DD: four digits, a hyphen, two digits, a hyphen, two digits
IsCanonicalDate(s) ==
    /\ Len(s) = 10
    /\ \A i \in 1..10 : IF i \in {5, 8} THEN s[i] = "-" ELSE s[i] \in Digits

\* the three groups of a slash date D/M/Y: one or two digits, one or two
\* digits, and a year of the given lengths
IsSlashDate(s, yearLengths) ==
    /\ Cardinality(PositionsOf(s, "/")) = 2
    /\ \A i \in 1..Len(s) : s[i] \in Digits \cup {"/"}
    /\ LET p == CHOOSE i \in PositionsOf(s, "/") : \A j \in PositionsOf(s, "/") : i <= j
           q == CHOOSE i \in PositionsOf(s, "/") : \A j \in PositionsOf(s, "/") : j <= i
       IN  /\ p - 1 \in {1, 2}
           /\ q - p - 1 \in {1, 2}
           /\ Len(s) - q \in yearLengths

\* C15: the date parser always returns a text of the shape YYYY-MM-DD: a text
\* already of that shape unchanged, a slash date converted, and the current
\* date for anything else.
C15_AlwaysCanonical ==
    DateParsed =>
        /\ IsCanonicalDate(ret)
        /\ IsCanonicalDate(arg) => ret = arg
        /\ (~IsCanonicalDate(Trim(arg)) /\ ~IsSlashDate(Trim(arg), {2, 3, 4})) => ret = hoje

\* the groups of a slash date
DayOf(s) == SubSeq(s, 1, (CHOOSE i \in PositionsOf(s, "/") : \A j \in PositionsOf(s, "/") : i <= j) - 1)

MonthOf(s) ==
    SubSeq(s, (CHOOSE i \in PositionsOf(s, "/") : \A j \in PositionsOf(s, "/") : i <= j) + 1,
              (CHOOSE i \in PositionsOf(s, "/") : \A j \in PositionsOf(s, "/") : j <= i) - 1)

YearOf(s) == SubSeq(s, (CHOOSE i \in PositionsOf(s, "/") : \A j \in PositionsOf(s, "/") : j <= i) + 1, Len(s))

\* one or two digits written with two digits
TwoDigits(g) == IF Len(g) = 1 THEN <<"0", g[1]>> ELSE g

\* a two-digit year in its century: 19yy from 50 on, 20yy below
FullYear(y) ==
    IF Len(y) = 2
    THEN (IF NumberOf(y) >= 50 THEN <<"1", "9">> ELSE <<"2", "0">>) \o y
    ELSE y

\* C16: D/M/Y with a one- or two-digit day and month and a two- or four-digit
\* year is read day-first and gives year-month-day, day and month padded to two
\* digits, a two-digit year yy being 19yy when yy >= 50 and 20yy when yy < 50.
C16_DayFirst ==
    (DateParsed /\ IsSlashDate(arg, {2, 4})) =>
        ret = FullYear(YearOf(arg)) \o <<"-">> \o TwoDigits(MonthOf(arg))
              \o <<"-">> \o TwoDigits(DayOf(arg))

\* '1/15/75' gives '1975-15-01'
C16_Witness ==
    /\ DateParsed
    /\ arg = <<"1", "/", "1", "5", "/", "7", "5">>
    /\ IsSlashDate(arg, {2, 4})
    /\ ret = <<"1", "9", "7", "5", "-", "1", "5", "-", "0", "1">>

(***************************************************************************)
(* Reference definitions for the categories.                               *)
(***************************************************************************)
PathParsed == pc = "pathParsed"

Normalized == pc = "normalized"

IsSeparator(c) == c \in {">", "/", ":"}

\* the characters a normalized text is made of, space apart
IsAlnum(c) == c \in LowerLetters \cup Digits

\* the letters and digits a text leaves once lower-cased and without accents
LettersOf(s) ==
    SelectSeq([i \in 1..Len(s) |-> Deaccent(Lower(s[i]))], IsAlnum)

\* the k-th piece of a text: what stands between its separators k - 1 and k
PieceOf(s, k) ==
    LET at == [i \in 1..Len(s) |-> <<i, s[i]>>]
        inPiece(x) == /\ ~IsSeparator(x[2])
                      /\ Cardinality({ j \in 1..x[1] : IsSeparator(s[j]) }) = k - 1
        chosen == SelectSeq(at, inPiece)
    IN  [i \in 1..Len(chosen) |-> chosen[i][2]]

\* the pieces that are not empty after normalization
KeptPieces(s) ==
    { k \in 1..(Cardinality({ j \in 1..Len(s) : IsSeparator(s[j]) }) + 1) :
        LettersOf(PieceOf(s, k)) # <<>> }

\* the i-th smallest element of a set of numbers
NthOf(S, i) == CHOOSE k \in S : Cardinality({ j \in S : j < k }) = i - 1

WithoutSpaces(s) == SelectSeq(s, LAMBDA c : c # " ")

\* C17: the path has one normalized segment for every piece between '>', '/'
\* and ':' that is not empty after normalization, in order, and nothing for the
\* empty pieces; when no piece remains the path is exactly <<'outros'>>.
C17_EmptyPiecesDropped ==
    PathParsed =>
        IF KeptPieces(arg) = {}
        THEN ret = <<outros>>
        ELSE /\ Len(ret) = Cardinality(KeptPieces(arg))
             /\ \A i \in 1..Len(ret) :
                   WithoutSpaces(ret[i]) = LettersOf(PieceOf(arg, NthOf(KeptPieces(arg), i)))

\* C18: normalizeCategoria never returns the empty string: it returns 'outros'
\* when normalization leaves nothing, and otherwise a text of characters of
\* [a-z0-9 ] without a leading, trailing or doubled space.
C18_NeverEmpty ==
    Normalized =>
        /\ ret # <<>>
        /\ LettersOf(arg) = <<>> => ret = outros
        /\ LettersOf(arg) # <<>> =>
              /\ \A i \in 1..Len(ret) : IsAlnum(ret[i]) \/ ret[i] = " "
              /\ ret[1] # " " /\ ret[Len(ret)] # " "
              /\ \A i \in 1..(Len(ret) - 1) : ~(ret[i] = " " /\ ret[i + 1] = " ")

(***************************************************************************)
(* Reference definitions for the top categories.                           *)
(***************************************************************************)
\* the full paths of the outflow transactions of the input
FullOutflowPaths(ts) == { ts[i].categoriaPath : i \in { j \in DOMAIN ts : ts[j].tipo = "Saída" } }

\* C19: topCategorias holds at most five entries of kind 'saida', in
\* non-increasing order of totalCentavos, each being the full categoriaPath of
\* an input transaction (never a roll-up entry of a proper prefix only), and no
\* outflow category left out has a larger total than one included.
C19_TopFullPaths ==
    Aggregated =>
        LET top == aggregation.topCategorias
            cats == aggregation.categorias
        IN  /\ Len(top) <= 5
            /\ \A i \in DOMAIN top : top[i].tipo = "saida"
            /\ \A i, j \in DOMAIN top : i < j => top[i].totalCentavos >= top[j].totalCentavos
            /\ \A i \in DOMAIN top : top[i].categoriaPath \in FullOutflowPaths(transactions)
            /\ \A i \in DOMAIN cats :
                  (cats[i].tipo = "saida" /\ \A j \in DOMAIN top : top[j] # cats[i]) =>
                      \A j \in DOMAIN top : cats[i].totalCentavos <= top[j].totalCentavos

(***************************************************************************)
(* Reference definitions for the repeated call.                            *)
(***************************************************************************)
CalledTwice == pc = "calledTwice"

Recommended == pc = "recommended"

\* the outflow total of a month of the input
OutflowOf(ts, m) == SumValorAt(ts, TxOfMonth(ts, m, {"Saída"}))

\* the most recent month of a set of months, and the one before it
LatestOf(months) == CHOOSE m \in months : \A o \in months : localeCompare(o, m) <= 0

HasTitle(recs, title) == \E i \in DOMAIN recs : recs[i].titulo = <<title>>

\* C21: with at least two distinct months, the growth warning is given exactly
\* when the outflow of the latest month exceeds that of the month before it by
\* more than 15 percent, and the reduction compliment exactly when it is lower
\* by more than 10 percent.
C21_TrendOfLatestMonths ==
    (Recommended /\ Cardinality(MonthsOf(transactions)) >= 2) =>
        LET latest == LatestOf(MonthsOf(transactions))
            previous == LatestOf(MonthsOf(transactions) \ {latest})
            u == OutflowOf(transactions, latest)
            p == OutflowOf(transactions, previous)
        IN  /\ HasTitle(ret, "Crescimento de Gastos") <=> (u - p) * 100 > 15 * p
            /\ HasTitle(ret, "Redução de Gastos") <=> (u - p) * 100 < (0 - 10) * p

\* the largest outflow category of an aggregation result takes more than 40
\* percent of the outflow total
LargestOutflowAbove40(agg) ==
    \E i \in DOMAIN agg.categorias :
        /\ agg.categorias[i].tipo = "saida"
        /\ \A j \in DOMAIN agg.categorias :
              agg.categorias[j].tipo = "saida" =>
                  agg.categorias[j].totalCentavos <= agg.categorias[i].totalCentavos
        /\ agg.categorias[i].totalCentavos * 100 > 40 * agg.totalSaidasCentavos

\* C22: one to three recommendations in a fixed order: the high-spend warning
\* exactly when the largest outflow category takes more than 40 percent, then
\* one balance note (surplus when saldoCentavos > 0, deficit otherwise), then at
\* most one trend note; the aggregation result passed in is left as it was.
C22_FixedOrder ==
    Recommended =>
        LET k == IF LargestOutflowAbove40(arg) THEN 1 ELSE 0
        IN  /\ Len(ret) \in 1..3
            /\ Len(ret) \in {k + 1, k + 2}
            /\ k = 1 => (ret[1].tipo = "otimizacao" /\ ret[1].titulo[1] = "Gastos Elevados em ")
            /\ k = 0 => \A i \in DOMAIN ret : ret[i].tipo # "otimizacao"
            /\ ret[k + 1].titulo = IF arg.saldoCentavos > 0
                                   THEN <<"Excelente Controle Financeiro">>
                                   ELSE <<"Atenção ao Saldo Negativo">>
            /\ Len(ret) = k + 2 =>
                  ret[k + 2].titulo \in { <<"Crescimento de Gastos">>, <<"Redução de Gastos">> }
            /\ aggregation = arg

\* the three notes at once, and elsewhere a largest category of a third of the
\* outflow without the warning
C22_Witness ==
    /\ Recommended
    /\ Len(ret) = 3
    /\ ret[1].tipo = "otimizacao"
    /\ ret[2].titulo = <<"Excelente Controle Financeiro">>
    /\ ret[3].titulo = <<"Redução de Gastos">>

C22_WitnessBelowThreshold ==
    /\ Recommended
    /\ Len(arg.topCategorias) = 3
    /\ ~LargestOutflowAbove40(arg)
    /\ ret[1].titulo = <<"Atenção ao Saldo Negativo">>


(***************************************************************************)
(* services/openai.ts: analyzeCSVWithAI.  The rows of the CSV are numbered *)
(* (row 0 is the header); processBatch asks the classifier, whose reply is *)
(* any short list of records or a failure.  One action per stretch of the  *)
(* function between two awaits.                                            *)
(***************************************************************************)
\* createBatches(rows, 30)
BatchSize == 30

\* the most records one reply of the classifier holds
MaxReply == 2

\* the most records the replies of one analysis hold together
MaxRecords == 4

Min(a, b) == IF a < b THEN a ELSE b

\* the for loop of createBatches, from offset i on
RECURSIVE BatchesFrom(_, _, _, _)
BatchesFrom(headers, dataRows, i, batchSize) ==
    IF i < Len(dataRows)
    THEN << <<headers>> \o SubSeq(dataRows, i + 1, Min(i + batchSize, Len(dataRows))) >>
             \o BatchesFrom(headers, dataRows, i + batchSize, batchSize)
    ELSE <<>>

createBatches(rows, batchSize) == BatchesFrom(rows[1], Tail(rows), 0, batchSize)

\* the rows parseCSVContent gives for a CSV of n data lines
RowsOf(n) == [k \in 1..(n + 1) |-> k - 1]

\* the sizes of the CSVs: header only, one batch, a full batch, one row more, three batches
TotalLines == { 0, 1, 30, 31, 61 }

\* records a reply is made of: a purchase, a refund, the settlement of the invoice
Compra ==
    [tipo |-> "Saída",
     valorOriginal |-> <<"1", "0", "0", ",", "0", "0">>,
     categoria |-> <<"A", "l", "i", "m", "e", "n", "t", "a", "ç", "ã", "o">>,
     empresa |-> <<"E", "x", "t", "r", "a">>,
     descricao |-> <<"C", "o", "m", "p", "r", "a">>,
     data |-> <<"2", "0", "2", "4", "-", "0", "1", "-", "1", "5">>]

Estorno ==
    [tipo |-> "Saída",
     valorOriginal |-> <<"-", "2", "0", ",", "0", "0">>,
     categoria |-> <<"A", "l", "i", "m", "e", "n", "t", "a", "ç", "ã", "o">>,
     empresa |-> <<"E", "x", "t", "r", "a">>,
     descricao |-> <<"E", "s", "t", "o", "r", "n", "o">>,
     data |-> <<"2", "0", "2", "4", "-", "0", "2", "-", "1", "6">>]

PagamentoFatura ==
    [tipo |-> "Entrada",
     valorOriginal |-> <<"5", "0", "0", ",", "0", "0">>,
     categoria |-> <<"O", "u", "t", "r", "o", "s">>,
     empresa |-> <<"P", "a", "g", "a", "m", "e", "n", "t", "o", "s", " ", "V", "a", "l", "i", "d", "o", "s", " ", "N", "o", "r", "m", "a", "i", "s">>,
     descricao |-> <<"P", "a", "g", "a", "m", "e", "n", "t", "o">>,
     data |-> <<"2", "0", "2", "4", "-", "0", "1", "-", "1", "0">>]

ReplyDomain == { Compra, Estorno, PagamentoFatura }

\* the id the prompt of processBatch asks for: sequential, from (batchNumber - 1) * 30 + 1
ReplyWithIds(recs, batchNumber) ==
    [j \in 1..Len(recs) |-> WithId(recs[j], (batchNumber - 1) * BatchSize + j)]

\* mutant of PushAll: the records of the earlier batches are lost
PushAll_Replace(all, items) == items

\* allRawTransactions.push(...batchResult.transactions)
PushAll(all, items) == all \o items

\* aggregation.totalEntradasCentavos / 100, as the exact quotient
Reais(c) == [num |-> c, den |-> 100]

\* the CSVAnalysisResult, as far as the aggregation decides it
ResultOf(allTransactions, agg) ==
    [transactions |-> allTransactions,
     insights |-> [totalEntradas |-> Reais(agg.totalEntradasCentavos),
                   totalSaidas |-> Reais(agg.totalSaidasCentavos),
                   saldo |-> Reais(agg.saldoCentavos),
                   recomendacoes |-> generateRecommendations(agg)]]

InitBatches ==
    /\ pc = "start"
    /\ \E n \in TotalLines : arg = RowsOf(n)
    /\ rawTransactions = <<>>
    /\ transactions = <<>>
    /\ aggregation = NoValue
    /\ hoje = NoValue
    /\ ret = NoValue
    /\ valor = <<>>
    /\ centavos = NoValue
    /\ NoAnalysis

\* lines 467-480: the rows are counted and divided
SplitRows ==
    /\ pc = "start"
    /\ LET totalLines == Len(arg) - 1
       IN  IF totalLines = 0
           THEN /\ outcome' = Thrown("CSV vazio ou apenas com cabeçalho")
                /\ pc' = "thrown"
                /\ UNCHANGED <<batches, batchIndex>>
           ELSE /\ batches' = createBatches(arg, BatchSize)
                /\ batchIndex' = 0
                /\ pc' = "loop"
                /\ UNCHANGED outcome
    /\ UNCHANGED <<batchResults, progress>>
    /\ UNCHANGED <<arg, ret, valor, centavos, rawTransactions, transactions, aggregation, hoje>>
    /\ UNCHANGED <<streamVars, clientVars>>

\* lines 483-491: the loop enters batch i + 1 and calls processBatch
BatchStart ==
    /\ pc = "loop"
    /\ batchIndex < Len(batches)
    /\ progress' = Append(progress, [callback |-> "onBatchStart",
                                      batchNumber |-> batchIndex + 1,
                                      totalBatches |-> Len(batches)])
    /\ pc' = "classifying"
    /\ UNCHANGED <<batches, batchIndex, batchResults, outcome>>
    /\ UNCHANGED <<arg, ret, valor, centavos, rawTransactions, transactions, aggregation, hoje>>
    /\ UNCHANGED <<streamVars, clientVars>>

\* lines 491-516: processBatch returned
BatchClassified ==
    /\ pc = "classifying"
    /\ \E n \in 0..Min(MaxReply, MaxRecords - Len(rawTransactions)) :
       \E recs \in [1..n -> ReplyDomain] :
          LET batchResult == ReplyWithIds(recs, batchIndex + 1)
          IN  /\ rawTransactions' = PushAll(rawTransactions, batchResult)
              /\ batchResults' = Append(batchResults, batchResult)
    /\ progress' = Append(progress, [callback |-> "onBatchComplete",
                                      batchNumber |-> batchIndex + 1,
                                      totalBatches |-> Len(batches)])
    /\ batchIndex' = batchIndex + 1
    /\ pc' = "loop"
    /\ UNCHANGED <<batches, outcome>>
    /\ UNCHANGED <<arg, ret, valor, centavos, transactions, aggregation, hoje>>
    /\ UNCHANGED <<streamVars, clientVars>>

\* lines 517-520 and 562-591: processBatch threw, and so does analyzeCSVWithAI
BatchFailed ==
    /\ pc = "classifying"
    /\ outcome' = Thrown("Falha ao classificar batch")
    /\ pc' = "thrown"
    /\ UNCHANGED <<batches, batchIndex, batchResults, progress>>
    /\ UNCHANGED <<arg, ret, valor, centavos, rawTransactions, transactions, aggregation, hoje>>
    /\ UNCHANGED <<streamVars, clientVars>>

\* lines 523-543: after the loop everything is converted, then aggregated
ConvertAndAggregate ==
    /\ pc = "loop"
    /\ batchIndex >= Len(batches)
    /\ \E h \in Hojes : \E mesAtual \in MesesAtuais :
          LET allTransactions == convertToTransactionData(rawTransactions, h)
          IN  /\ hoje' = h
              /\ transactions' = allTransactions
              /\ aggregation' = aggregateTransactions(allTransactions, mesAtual)
    /\ pc' = "analysing"
    /\ UNCHANGED <<arg, ret, valor, centavos, rawTransactions>>
    /\ UNCHANGED <<analysisVars, streamVars, clientVars>>

\* lines 543-560: generateGeneralAnalysis returned
AnalysisReturned ==
    /\ pc = "analysing"
    /\ outcome' = Returned(ResultOf(transactions, aggregation))
    /\ pc' = "returned"
    /\ UNCHANGED <<batches, batchIndex, batchResults, progress>>
    /\ UNCHANGED <<arg, ret, valor, centavos, rawTransactions, transactions, aggregation, hoje>>
    /\ UNCHANGED <<streamVars, clientVars>>

\* lines 543 and 562-591: generateGeneralAnalysis threw
AnalysisFailed ==
    /\ pc = "analysing"
    /\ outcome' = Thrown("Falha na análise geral")
    /\ pc' = "thrown"
    /\ UNCHANGED <<batches, batchIndex, batchResults, progress>>
    /\ UNCHANGED <<arg, ret, valor, centavos, rawTransactions, transactions, aggregation, hoje>>
    /\ UNCHANGED <<streamVars, clientVars>>

NextBatches ==
    \/ SplitRows
    \/ BatchStart
    \/ BatchClassified
    \/ BatchFailed
    \/ ConvertAndAggregate
    \/ AnalysisReturned
    \/ AnalysisFailed

SpecBatches == InitBatches /\ [][NextBatches]_vars

AnalysisReturnedOk == pc = "returned"

\* the records of all replies, in batch order
RECURSIVE Flatten(_)
Flatten(lists) == IF lists = <<>> THEN <<>> ELSE Head(lists) \o Flatten(Tail(lists))

\* the positions (batch, record) of the records that pass the exclusion filter
KeptPositions(lists) ==
    { p \in (DOMAIN lists) \X (1..MaxReply + 1) :
         p[2] \in DOMAIN lists[p[1]] /\ KeepRaw(lists[p[1]][p[2]]) }

C25_PartialResults ==
    (pc = "thrown" /\ Len(batchResults) > 0 /\ batchIndex < Len(batches)) =>
        /\ outcome.threw = "nothing"
        /\ outcome.value.transactions = convertToTransactionData(Flatten(batchResults), hoje)


(***************************************************************************)
(* api/services/financial-analyzer.ts: the builder of the backend.  A      *)
(* JavaScript number is an integer or NaN; a Date is kept as the text it   *)
(* was constructed from.                                                   *)
(***************************************************************************)
Num(n) == [nan |-> FALSE, value |-> n]
NaN == [nan |-> TRUE, value |-> 0]

\* s.replace(c, d): the first occurrence only
RECURSIVE ReplaceFirst(_, _, _)
ReplaceFirst(s, c, d) ==
    IF Len(s) = 0 THEN <<>>
    ELSE IF s[1] = c THEN <<d>> \o Tail(s)
    ELSE <<s[1]>> \o ReplaceFirst(Tail(s), c, d)

\* valor.replace(/[R$\s]/g, '')
RemoveCurrencyAndSpaces(s) == SelectSeq(s, LAMBDA c : ~(c \in {"R", "$"} \/ IsSpace(c)))

\* the longest prefix of decimal digits
RECURSIVE DigitPrefix(_)
DigitPrefix(s) ==
    IF Len(s) > 0 /\ s[1] \in Digits THEN <<s[1]>> \o DigitPrefix(Tail(s)) ELSE <<>>

\* parseFloat(s), s holding no letter (no exponent, no "Infinity") and no
\* leading space: the longest prefix sign, digits, period, digits; NaN when
\* it holds no digit
parseFloat(s) ==
    LET signed == Len(s) > 0 /\ s[1] \in {"-", "+"}
        body == IF signed THEN Tail(s) ELSE s
        int == DigitPrefix(body)
        rest == SubSeq(body, Len(int) + 1, Len(body))
        frac == IF Len(rest) > 0 /\ rest[1] = "." THEN DigitPrefix(Tail(rest)) ELSE <<>>
    IN  [nan |-> Len(int) = 0 /\ Len(frac) = 0,
         negative |-> signed /\ s[1] = "-",
         int |-> int,
         frac |-> frac]

\* Math.round(numValue * 100): halves are rounded towards plus infinity (the
\* binary product decides when the decimal text lies exactly on a half)
RoundTimes100(numValue) ==
    LET d(i) == IF i <= Len(numValue.frac) THEN DigitVal(numValue.frac[i]) ELSE 0
        restNonZero == \E i \in 4..Len(numValue.frac) : numValue.frac[i] # "0"
        whole == ParseDigits(numValue.int, 0) * 100 + d(1) * 10 + d(2)
        up == IF numValue.negative
              THEN d(3) > 5 \/ (d(3) = 5 /\ restNonZero)
              ELSE d(3) >= 5
        magnitude == IF up THEN whole + 1 ELSE whole
    IN  IF numValue.nan THEN NaN
        ELSE IF numValue.negative THEN Num(0 - magnitude) ELSE Num(magnitude)

\* mutant of parseValorBrasileiroApi: a comma is always the decimal separator
\* of the last two digits, periods group thousands
parseValorBrasileiroApi_CommaOnly(v) ==
    IF Len(v) = 0 THEN Num(0)
    ELSE LET cleanValue == RemoveCurrencyAndSpaces(v)
         IN  RoundTimes100(parseFloat(ReplaceFirst(RemoveAll(cleanValue, "."), ",", ".")))

\* parseValorBrasileiro of the backend (lines 125-143), called on a string
parseValorBrasileiroApi(v) ==
    IF Len(v) = 0 THEN Num(0)
    ELSE LET cleanValue == RemoveCurrencyAndSpaces(v)
             normalized ==
                 IF includesChar(cleanValue, ",") /\ includesChar(cleanValue, ".")
                 THEN ReplaceFirst(RemoveAll(cleanValue, "."), ",", ".")
                 ELSE IF includesChar(cleanValue, ",")
                      THEN ReplaceFirst(cleanValue, ",", ".")
                      ELSE cleanValue
         IN  RoundTimes100(parseFloat(normalized))

\* new Date(text), and new Date() on the day dataHoje
DateOf(text) == [dateOf |-> text]

\* the window of n characters of s that starts at i
Window(s, i, n) == SubSeq(s, i, i + n - 1)

\* /(\d{2})<sep>(\d{2})<sep>(\d{4})/ matches w
IsDayFirst(w, sep) ==
    /\ Len(w) = 10
    /\ w[3] = sep /\ w[6] = sep
    /\ \A i \in {1, 2, 4, 5, 7, 8, 9, 10} : w[i] \in Digits

\* the first position where a window of 10 characters satisfies Matches, 0 if none
FirstIsoAt(s) ==
    LET hits == { i \in 1..(Len(s) - 9) : IsIsoDate(Window(s, i, 10)) }
    IN  IF hits = {} THEN 0 ELSE CHOOSE i \in hits : \A j \in hits : i <= j

FirstDayFirstAt(s, sep) ==
    LET hits == { i \in 1..(Len(s) - 9) : IsDayFirst(Window(s, i, 10), sep) }
    IN  IF hits = {} THEN 0 ELSE CHOOSE i \in hits : \A j \in hits : i <= j

\* `${match[3]}-${match[2]}-${match[1]}`
YearMonthDay(w) == SubSeq(w, 7, 10) \o <<"-">> \o SubSeq(w, 4, 5) \o <<"-">> \o SubSeq(w, 1, 2)

\* parseDateBrasileira of the backend (lines 148-170)
parseDateBrasileiraApi(dateStr, dataHoje) ==
    IF Len(dateStr) = 0 THEN DateOf(dataHoje)
    ELSE IF FirstIsoAt(dateStr) > 0
         THEN DateOf(Window(dateStr, FirstIsoAt(dateStr), 10))
    ELSE IF FirstDayFirstAt(dateStr, "/") > 0
         THEN DateOf(YearMonthDay(Window(dateStr, FirstDayFirstAt(dateStr, "/"), 10)))
    ELSE IF FirstDayFirstAt(dateStr, "-") > 0
         THEN DateOf(YearMonthDay(Window(dateStr, FirstDayFirstAt(dateStr, "-"), 10)))
    ELSE DateOf(dateStr)

\* s.split(' > '): the pieces between the occurrences of the separator
RECURSIVE SplitOnSep(_, _, _)
SplitOnSep(s, sep, piece) ==
    IF Len(s) = 0 THEN <<piece>>
    ELSE IF Len(s) >= Len(sep) /\ SubSeq(s, 1, Len(sep)) = sep
         THEN <<piece>> \o SplitOnSep(SubSeq(s, Len(sep) + 1, Len(s)), sep, <<>>)
         ELSE SplitOnSep(Tail(s), sep, Append(piece, s[1]))

\* parseCategoriaPath of the backend (lines 175-178)
parseCategoriaPathApi(categoria) ==
    IF Len(categoria) = 0 THEN << <<"O", "u", "t", "r", "o", "s">> >>
    ELSE LET pieces == SplitOnSep(categoria, SepCategoria, <<>>)
         IN  [i \in 1..Len(pieces) |-> Trim(pieces[i])]

\* the predicate of the filter of lines 275-282
KeepRawApi(raw) ==
    LET empresa == toLowerCase(OrDefault(raw.empresa, <<>>))
        descricao == toLowerCase(OrDefault(raw.descricao, <<>>))
    IN  ~includes(empresa, Marker) /\ ~includes(descricao, Marker)

\* valorCentavos < 0 ? 'Entrada' : 'Saída'
TipoApi(valorCentavos) ==
    IF ~valorCentavos.nan /\ valorCentavos.value < 0 THEN "Entrada" ELSE "Saída"

\* Math.abs(valorCentavos)
MathAbs(x) == IF x.nan THEN NaN ELSE Num(Abs(x.value))

NotSpecified == <<"N", "o", "t", " ", "s", "p", "e", "c", "i", "f", "i", "e", "d">>
NoDescription == <<"N", "o", " ", "d", "e", "s", "c", "r", "i", "p", "t", "i", "o", "n">>

\* the function of the map of lines 283-306
BuildTransactionApi(raw, dataHoje) ==
    LET valorCentavos == parseValorBrasileiroApi(raw.valorOriginal)
    IN  [id |-> raw.id,
         tipo |-> TipoApi(valorCentavos),
         valorCentavos |-> MathAbs(valorCentavos),
         categoria |-> raw.categoria,
         categoriaPath |-> parseCategoriaPathApi(raw.categoria),
         empresa |-> OrDefault(raw.empresa, NotSpecified),
         descricao |-> OrDefault(raw.descricao, NoDescription),
         data |-> parseDateBrasileiraApi(raw.data, dataHoje)]

\* convertToTransactionData of the backend (lines 273-307)
convertToTransactionDataApi(raws, dataHoje) ==
    LET kept == SelectSeq(raws, KeepRawApi)
    IN  [i \in 1..Len(kept) |-> BuildTransactionApi(kept[i], dataHoje)]

\* a + b on JavaScript numbers
Plus(a, b) == IF a.nan \/ b.nan THEN NaN ELSE Num(a.value + b.value)

\* the totals of aggregateTransactions of the backend (lines 313-343), folded
\* over the list as forEach does
RECURSIVE TotalApi(_, _, _)
TotalApi(ts, entrada, acc) ==
    IF Len(ts) = 0 THEN acc
    ELSE TotalApi(Tail(ts), entrada,
                  IF (ts[1].tipo = "Entrada") = entrada THEN Plus(acc, ts[1].valorCentavos) ELSE acc)

\* the result of the backend, as far as its totals decide it (lines 343-349,
\* 372-374 and 614-619)
ResultOfApi(allTransactions) ==
    LET totalEntradasCentavos == TotalApi(allTransactions, TRUE, Num(0))
        totalSaidasCentavos == TotalApi(allTransactions, FALSE, Num(0))
    IN  [transactions |-> allTransactions,
         insights |-> [totalEntradasCentavos |-> totalEntradasCentavos,
                       totalSaidasCentavos |-> totalSaidasCentavos]]


(***************************************************************************)
(* api/analyze-stream.ts: the handler answering a POST that carries        *)
(* csvContent, and analyzeCSVWithAI of the backend it awaits.  sendEvent    *)
(* appends to events; the callbacks of the handler are run by the loop.    *)
(***************************************************************************)
\* sendEvent(event, data), by the event and the fields of data that matter
StartEvent == [event |-> "start"]

BatchStartEvent(batchNumber, totalBatches) ==
    [event |-> "batch_start", current |-> batchNumber, total |-> totalBatches]

BatchCompleteEvent(batchNumber, totalBatches, batchResult) ==
    [event |-> "batch_complete", current |-> batchNumber, total |-> totalBatches,
     batchTransactions |-> Len(batchResult)]

CompleteEvent(result) == [event |-> "complete", success |-> TRUE, data |-> result]

ErrorEvent(message) == [event |-> "error", success |-> FALSE, message |-> message]

\* mutant of NextBatchIndex: the loop skips a batch
NextBatchIndex_Skip(i) == i + 2

\* the i++ of the loop
NextBatchIndex(i) == i + 1

InitStream ==
    /\ pc = "start"
    /\ \E n \in TotalLines : arg = RowsOf(n)
    /\ rawTransactions = <<>>
    /\ transactions = <<>>
    /\ aggregation = NoValue
    /\ hoje = NoValue
    /\ ret = NoValue
    /\ valor = <<>>
    /\ centavos = NoValue
    /\ NoAnalysis

\* analyze-stream.ts 44-64: the headers are set, 'start' is sent, the analysis is called
OpenStream ==
    /\ pc = "start"
    /\ events' = Append(events, StartEvent)
    /\ pc' = "called"
    /\ UNCHANGED <<arg, ret, valor, centavos, rawTransactions, transactions, aggregation, hoje>>
    /\ UNCHANGED <<analysisVars, streamEnded, clientVars>>

\* financial-analyzer.ts 529-552: the key is checked, the rows are counted and divided
ApiSplitRows ==
    /\ pc = "called"
    /\ \E keySet \in BOOLEAN :
          LET totalLines == Len(arg) - 1
          IN  IF ~keySet
              THEN /\ outcome' = Thrown("OPENAI_API_KEY environment variable not set")
                   /\ pc' = "thrown"
                   /\ UNCHANGED <<batches, batchIndex>>
              ELSE IF totalLines = 0
              THEN /\ outcome' = Thrown("Empty CSV or header only")
                   /\ pc' = "thrown"
                   /\ UNCHANGED <<batches, batchIndex>>
              ELSE /\ batches' = createBatches(arg, BatchSize)
                   /\ batchIndex' = 0
                   /\ pc' = "loop"
                   /\ UNCHANGED outcome
    /\ UNCHANGED <<batchResults, progress>>
    /\ UNCHANGED <<arg, ret, valor, centavos, rawTransactions, transactions, aggregation, hoje>>
    /\ UNCHANGED <<streamVars, clientVars>>

\* financial-analyzer.ts 555-563 and analyze-stream.ts 65-73
ApiBatchStart ==
    /\ pc = "loop"
    /\ batchIndex < Len(batches)
    /\ progress' = Append(progress, [callback |-> "onBatchStart",
                                      batchNumber |-> batchIndex + 1,
                                      totalBatches |-> Len(batches)])
    /\ events' = Append(events, BatchStartEvent(batchIndex + 1, Len(batches)))
    /\ pc' = "classifying"
    /\ UNCHANGED <<batches, batchIndex, batchResults, outcome>>
    /\ UNCHANGED <<arg, ret, valor, centavos, rawTransactions, transactions, aggregation, hoje>>
    /\ UNCHANGED <<streamEnded, clientVars>>

\* financial-analyzer.ts 563-580 and analyze-stream.ts 74-83: processBatch returned
ApiBatchClassified ==
    /\ pc = "classifying"
    /\ \E n \in 0..Min(MaxReply, MaxRecords - Len(rawTransactions)) :
       \E recs \in [1..n -> ReplyDomain] : \E h \in Hojes :
          LET batchResult == ReplyWithIds(recs, batchIndex + 1)
              batchTransactions == convertToTransactionDataApi(batchResult, h)
          IN  /\ rawTransactions' = PushAll(rawTransactions, batchResult)
              /\ batchResults' = Append(batchResults, batchResult)
              /\ events' = Append(events, BatchCompleteEvent(batchIndex + 1, Len(batches),
                                                             batchTransactions))
    /\ progress' = Append(progress, [callback |-> "onBatchComplete",
                                      batchNumber |-> batchIndex + 1,
                                      totalBatches |-> Len(batches)])
    /\ batchIndex' = NextBatchIndex(batchIndex)
    /\ pc' = "loop"
    /\ UNCHANGED <<batches, outcome>>
    /\ UNCHANGED <<arg, ret, valor, centavos, transactions, aggregation, hoje>>
    /\ UNCHANGED <<streamEnded, clientVars>>

\* financial-analyzer.ts 581-584 and 626-655: processBatch threw
ApiBatchFailed ==
    /\ pc = "classifying"
    /\ outcome' = Thrown("Failed to classify batch")
    /\ pc' = "thrown"
    /\ UNCHANGED <<batches, batchIndex, batchResults, progress>>
    /\ UNCHANGED <<arg, ret, valor, centavos, rawTransactions, transactions, aggregation, hoje>>
    /\ UNCHANGED <<streamVars, clientVars>>

\* financial-analyzer.ts 587-607: everything is converted (the totals of the aggregation
\* are those of ResultOfApi)
ApiConvertAndAggregate ==
    /\ pc = "loop"
    /\ batchIndex >= Len(batches)
    /\ \E h \in Hojes :
          /\ hoje' = h
          /\ transactions' = convertToTransactionDataApi(rawTransactions, h)
    /\ pc' = "analysing"
    /\ UNCHANGED <<arg, ret, valor, centavos, rawTransactions, aggregation>>
    /\ UNCHANGED <<analysisVars, streamVars, clientVars>>

\* financial-analyzer.ts 607-624: generateGeneralAnalysis returned
ApiReturned ==
    /\ pc = "analysing"
    /\ outcome' = Returned(ResultOfApi(transactions))
    /\ pc' = "returned"
    /\ UNCHANGED <<batches, batchIndex, batchResults, progress>>
    /\ UNCHANGED <<arg, ret, valor, centavos, rawTransactions, transactions, aggregation, hoje>>
    /\ UNCHANGED <<streamVars, clientVars>>

\* financial-analyzer.ts 607 and 626-655: generateGeneralAnalysis threw
ApiAnalysisFailed ==
    /\ pc = "analysing"
    /\ outcome' = Thrown("General analysis failed")
    /\ pc' = "thrown"
    /\ UNCHANGED <<batches, batchIndex, batchResults, progress>>
    /\ UNCHANGED <<arg, ret, valor, centavos, rawTransactions, transactions, aggregation, hoje>>
    /\ UNCHANGED <<streamVars, clientVars>>

\* analyze-stream.ts 86-97: the result is sent and the stream ended
SendComplete ==
    /\ pc = "returned"
    /\ events' = Append(events, CompleteEvent(outcome.value))
    /\ streamEnded' = TRUE
    /\ pc' = "ended"
    /\ UNCHANGED <<arg, ret, valor, centavos, rawTransactions, transactions, aggregation, hoje>>
    /\ UNCHANGED <<analysisVars, clientVars>>

\* analyze-stream.ts 99-111: the error is sent and the stream ended
SendError ==
    /\ pc = "thrown"
    /\ events' = Append(events, ErrorEvent(outcome.threw))
    /\ streamEnded' = TRUE
    /\ pc' = "ended"
    /\ UNCHANGED <<arg, ret, valor, centavos, rawTransactions, transactions, aggregation, hoje>>
    /\ UNCHANGED <<analysisVars, clientVars>>

NextStream ==
    \/ OpenStream
    \/ ApiSplitRows
    \/ ApiBatchStart
    \/ ApiBatchClassified
    \/ ApiBatchFailed
    \/ ApiConvertAndAggregate
    \/ ApiReturned
    \/ ApiAnalysisFailed
    \/ SendComplete
    \/ SendError

SpecStream == InitStream /\ [][NextStream]_vars

IsTerminal(e) == e.event \in {"complete", "error"}

\* the events that may come right after the events before position k
FollowsInOrder(k) ==
    LET e == events[k]
    IN  CASE e.event = "start" -> k = 1
          [] e.event = "batch_start" ->
                /\ k > 1
                /\ \/ e.current = 1 /\ events[k - 1].event = "start"
                   \/ /\ events[k - 1].event = "batch_complete"
                      /\ events[k - 1].current = e.current - 1
                /\ e.current \in 1..e.total
                /\ e.total = Len(batches)
          [] e.event = "batch_complete" ->
                /\ k > 1
                /\ events[k - 1].event = "batch_start"
                /\ events[k - 1].current = e.current
                /\ events[k - 1].total = e.total
          [] e.event = "complete" ->
                /\ k > 1
                /\ events[k - 1].event = "batch_complete"
                /\ events[k - 1].current = events[k - 1].total
          [] e.event = "error" -> k > 1
          [] OTHER -> FALSE

\* C24: 'start' comes first, then 'batch_start' i and 'batch_complete' i for
\* i = 1, 2, ... in turn, then one terminal event, 'complete' only after the last
\* batch completed; the stream is ended exactly when the terminal event is
\* written, and nothing is written after it.
C24_EventsInOrder ==
    /\ \A k \in DOMAIN events : FollowsInOrder(k)
    /\ \A k \in DOMAIN events : IsTerminal(events[k]) => k = Len(events)
    /\ streamEnded <=> (Len(events) > 0 /\ IsTerminal(events[Len(events)]))
    /\ streamEnded <=> pc = "ended"
    /\ pc # "start" => (Len(events) > 0 /\ events[1].event = "start")

C24_Witness ==
    /\ streamEnded
    /\ Len(events) = 8
    /\ events[8].event = "complete"
    /\ events[7].batchTransactions = 0
    /\ events[3].batchTransactions = 2

C24_WitnessError ==
    /\ streamEnded
    /\ Len(events) = 5
    /\ events[5].event = "error"
    /\ events[4].event = "batch_start"
    /\ events[4].current = 2


\* C26: the transactionCount of the entry of (prefix, kind) is the number of
\* transactions of that kind filed under the prefix.
C26_CountOfOwnKind ==
    Aggregated =>
        \A i \in DOMAIN aggregation.categorias :
            LET c == aggregation.categorias[i]
            IN  c.transactionCount = Cardinality(TxUnder(transactions, c.categoriaPath, c.tipo))


(***************************************************************************)
(* The percentage as JavaScript computes it.  percentual is a double: the  *)
(* quotient is rounded to 53 significant bits, and so is its product with  *)
(* 100.  A natural number too large for an integer of the model is the     *)
(* sequence of its digits in base 2^14, lowest first, the highest not 0; a *)
(* positive double is mant * 2^exp.                                        *)
(***************************************************************************)
\* the significant bits of a double
Precision == 53

\* the bits of one digit of a large number
DigitBits == 14

Base == 2 ^ DigitBits

RECURSIVE NatOf(_)
NatOf(n) == IF n = 0 THEN <<>> ELSE <<n % Base>> \o NatOf(n \div Base)

RECURSIVE AddNat(_, _, _)
AddNat(a, b, carry) ==
    IF Len(a) = 0 /\ Len(b) = 0 THEN (IF carry > 0 THEN <<carry>> ELSE <<>>)
    ELSE LET s == (IF Len(a) > 0 THEN a[1] ELSE 0) + (IF Len(b) > 0 THEN b[1] ELSE 0) + carry
         IN  <<s % Base>> \o AddNat(IF Len(a) > 0 THEN Tail(a) ELSE <<>>,
                                    IF Len(b) > 0 THEN Tail(b) ELSE <<>>, s \div Base)

\* a * n + carry for n below 2^16
RECURSIVE TimesSmall(_, _, _)
TimesSmall(a, n, carry) ==
    IF Len(a) = 0 THEN NatOf(carry)
    ELSE LET p == a[1] * n + carry
         IN  <<p % Base>> \o TimesSmall(Tail(a), n, p \div Base)

\* without the highest digits that are 0
RECURSIVE WithoutHighZeros(_)
WithoutHighZeros(a) ==
    IF Len(a) > 0 /\ a[Len(a)] = 0 THEN WithoutHighZeros(SubSeq(a, 1, Len(a) - 1)) ELSE a

\* the number of bits of a
BitLength(a) ==
    IF Len(a) = 0 THEN 0
    ELSE DigitBits * (Len(a) - 1)
           + (CHOOSE k \in 1..DigitBits : 2 ^ (k - 1) <= a[Len(a)] /\ a[Len(a)] < 2 ^ k)

\* a * 2^k
ShiftLeft(a, k) ==
    IF Len(a) = 0 THEN <<>>
    ELSE [i \in 1..(k \div DigitBits) |-> 0]
           \o WithoutHighZeros(TimesSmall(a, 2 ^ (k % DigitBits), 0))

\* a / 2^k, rounded down
ShiftRight(a, k) ==
    LET q == k \div DigitBits
        r == k % DigitBits
        digit(i) == IF i <= Len(a) THEN a[i] ELSE 0
    IN  WithoutHighZeros([i \in 1..(Len(a) - q) |->
                       digit(i + q) \div (2 ^ r) + (digit(i + q + 1) % (2 ^ r)) * 2 ^ (DigitBits - r)])

\* bit i of a, the lowest being bit 1
Bit(a, i) == (a[(i - 1) \div DigitBits + 1] \div (2 ^ ((i - 1) % DigitBits))) % 2

\* one of the k lowest bits of a is 1
LowBitsSet(a, k) == \E i \in 1..k : Bit(a, i) = 1

\* a <= b
NatLessEq(a, b) ==
    IF Len(a) # Len(b) THEN Len(a) < Len(b)
    ELSE LET differ == { i \in 1..Len(a) : a[i] # b[i] }
         IN  differ = {} \/ LET top == CHOOSE i \in differ : \A j \in differ : j <= i
                            IN  a[top] < b[top]

DoubleZero == [mant |-> <<>>, exp |-> 0]

\* mutant of RoundToDouble: single precision, the bits beyond it cut off
RoundToDouble_Single(n, exp, sticky) ==
    IF BitLength(n) <= 24 THEN [mant |-> n, exp |-> exp]
    ELSE [mant |-> ShiftRight(n, BitLength(n) - 24), exp |-> exp + (BitLength(n) - 24)]

\* n * 2^exp (plus less than one unit of the lowest bit when sticky) rounded
\* to the nearest double, ties to even
RoundToDouble(n, exp, sticky) ==
    IF BitLength(n) <= Precision THEN [mant |-> n, exp |-> exp]
    ELSE LET k == BitLength(n) - Precision
             kept == ShiftRight(n, k)
             guard == Bit(n, k)
             below == sticky \/ LowBitsSet(n, k - 1)
             up == guard = 1 /\ (below \/ Bit(kept, 1) = 1)
         IN  [mant |-> IF up THEN AddNat(kept, <<>>, 1) ELSE kept, exp |-> exp + k]

\* the bits of the quotient found in one step of the division
StepBits == 7

\* floor(t * 2^k / g) for the first multiple k of StepBits that gives two bits
\* more than the precision (or an exact quotient), q and r being the quotient
\* and the remainder so far; g is below 2^24
RECURSIVE QuotientOf(_, _, _, _)
QuotientOf(q, r, g, k) ==
    IF r = 0 \/ BitLength(q) >= Precision + 2 THEN [nat |-> q, exp |-> 0 - k, sticky |-> r # 0]
    ELSE QuotientOf(TimesSmall(q, 2 ^ StepBits, (r * 2 ^ StepBits) \div g),
                    (r * 2 ^ StepBits) % g, g, k + StepBits)

\* t / g in double arithmetic, t and g positive integers
DivideDoubles(t, g) ==
    LET q == QuotientOf(NatOf(t \div g), t % g, g, 0)
    IN  RoundToDouble(q.nat, q.exp, q.sticky)

\* x * 100 in double arithmetic
Times100(x) == RoundToDouble(TimesSmall(x.mant, 100, 0), x.exp, FALSE)

\* the double the code computes for the quotient kept in percentual:
\* grandTotal > 0 ? (total / grandTotal) * 100 : 0
PercentualValue(percentual) ==
    IF percentual.num = 0 THEN DoubleZero
    ELSE Times100(DivideDoubles(percentual.num \div 100, percentual.den))

(***************************************************************************)
(* aggregateTransactions called on short lists over three categories, with *)
(* amounts that make a category hold a third, two sevenths, ... of a total. *)
(***************************************************************************)
MaxTxPercent == 3

PercentValores == { <<"Saída", 2000>>, <<"Saída", 5000>>, <<"Entrada", 2000>> }

PercentDomain ==
    { [tipo |-> v[1], valorCentavos |-> v[2], categoriaPath |-> <<c>>,
       data |-> <<"2", "0", "2", "4", "-", "0", "1", "-", "1", "5">>] :
         v \in PercentValores, c \in { alimentacao, transporte, moradia } }

InitPercent ==
    /\ NoAnalysis
    /\ pc = "start"
    /\ \E n \in 0..MaxTxPercent : transactions \in [1..n -> PercentDomain]
    /\ aggregation = NoValue
    /\ rawTransactions = <<>>
    /\ hoje = NoValue
    /\ arg = NoValue
    /\ ret = NoValue
    /\ valor = <<>>
    /\ centavos = NoValue

NextPercent == Aggregate

SpecPercent == InitPercent /\ [][NextPercent]_vars

\* |a - b| <= b / 2^50
WithinRounding(a, b) ==
    /\ NatLessEq(a, AddNat(b, ShiftRight(b, 50), 0))
    /\ NatLessEq(b, AddNat(a, ShiftRight(b, 50), 0))

\* the grand total an entry is measured against
GrandTotalOf(agg, tipo) ==
    IF tipo = "entrada" THEN agg.totalEntradasCentavos ELSE agg.totalSaidasCentavos

\* x * g and n, both in units of 2^x.exp (x.exp is not positive)
ScaledProduct(x, g) == TimesSmall(x.mant, g, 0)
Scaled(n, x) == ShiftLeft(NatOf(n), 0 - x.exp)

\* the lowest exponent of the doubles xs[i], i in I
MinExp(xs, I) == CHOOSE e \in { xs[i].exp : i \in I } : \A i \in I : e <= xs[i].exp

\* the exact sum of the doubles xs[i], i in I, in units of 2^e
RECURSIVE SumDoubles(_, _, _)
SumDoubles(xs, I, e) ==
    IF I = {} THEN <<>>
    ELSE LET i == CHOOSE x \in I : TRUE
         IN  AddNat(ShiftLeft(xs[i].mant, xs[i].exp - e), SumDoubles(xs, I \ {i}, e), 0)

PercentValues(agg) == [i \in DOMAIN agg.categorias |-> PercentualValue(agg.categorias[i].percentual)]

DepthOne(agg, tipo) ==
    { i \in DOMAIN agg.categorias :
         agg.categorias[i].tipo = tipo /\ Len(agg.categorias[i].categoriaPath) = 1 }

\* 0 < x <= 100
PositiveAtMost100(x) ==
    /\ Len(x.mant) > 0
    /\ NatLessEq(x.mant, Scaled(100, x))

\* C27 as stated: percentual times the grand total equals totalCentavos times
\* 100, every percentage is above 0 and at most 100, and the depth-1 percentages
\* of a kind add up to 100.
C27_Original_ExactPercentages ==
    Aggregated =>
        LET ps == PercentValues(aggregation)
        IN  /\ \A i \in DOMAIN ps :
                  LET c == aggregation.categorias[i]
                  IN  /\ ScaledProduct(ps[i], GrandTotalOf(aggregation, c.tipo))
                            = Scaled(c.totalCentavos * 100, ps[i])
                      /\ PositiveAtMost100(ps[i])
            /\ \A tipo \in {"entrada", "saida"} :
                  GrandTotalOf(aggregation, tipo) > 0 =>
                      LET I == DepthOne(aggregation, tipo)
                          e == MinExp(ps, I)
                      IN  SumDoubles(ps, I, e) = ShiftLeft(NatOf(100), 0 - e)

\* C27 (amended): percentual is the double (totalCentavos / grand total) * 100.
\* Times the grand total it equals totalCentavos times 100 up to the rounding of
\* the two operations (a relative error below 2^-50), and exactly 100 when the
\* entry holds the whole grand total; every percentage is above 0 and at most
\* 100; the depth-1 percentages of a kind add up to 100 up to the same error.
C27_PercentagesUpToRounding ==
    Aggregated =>
        LET ps == PercentValues(aggregation)
        IN  /\ \A i \in DOMAIN ps :
                  LET c == aggregation.categorias[i]
                      g == GrandTotalOf(aggregation, c.tipo)
                  IN  /\ WithinRounding(ScaledProduct(ps[i], g), Scaled(c.totalCentavos * 100, ps[i]))
                      /\ c.totalCentavos = g => ps[i].mant = Scaled(100, ps[i])
                      /\ PositiveAtMost100(ps[i])
            /\ \A tipo \in {"entrada", "saida"} :
                  GrandTotalOf(aggregation, tipo) > 0 =>
                      LET I == DepthOne(aggregation, tipo)
                          e == MinExp(ps, I)
                      IN  WithinRounding(SumDoubles(ps, I, e), ShiftLeft(NatOf(100), 0 - e))

\* three categories hold a third of the outflow each
C27_Witness ==
    /\ Aggregated
    /\ aggregation.totalSaidasCentavos = 6000
    /\ aggregation.totalEntradasCentavos = 0
    /\ Cardinality(DepthOne(aggregation, "saida")) = 3


(***************************************************************************)
(* aggregateTransactions called on a list and on a permutation of it.  The *)
(* lists hold outflows and inflows of one amount, under two paths of depth *)
(* three and one of depth one, in two months, so that categories and       *)
(* months tie and more than TopN outflow entries are emitted.              *)
(***************************************************************************)
MaxTxPermute == 3

mercado == <<"m", "e", "r", "c", "a", "d", "o">>
feira == <<"f", "e", "i", "r", "a">>

PermutePaths == { <<transporte, apps, uber>>, <<alimentacao, mercado, feira>>, <<moradia>> }

PermuteDatas == { <<"2", "0", "2", "4", "-", "0", "1", "-", "1", "5">>,
                  <<"2", "0", "2", "4", "-", "0", "2", "-", "1", "0">> }

PermuteDomain ==
    { [tipo |-> tipo, valorCentavos |-> 2000, categoriaPath |-> p, data |-> d] :
        tipo \in { "Saída", "Entrada" }, p \in PermutePaths, d \in PermuteDatas }

\* the lists with the elements of ts in another order (or the same)
PermutationsOf(ts) ==
    { [i \in 1..Len(ts) |-> ts[p[i]]] :
        p \in { q \in [1..Len(ts) -> 1..Len(ts)] : \A i, j \in 1..Len(ts) : q[i] = q[j] => i = j } }

InitPermute ==
    /\ NoAnalysis
    /\ pc = "start"
    /\ \E n \in 1..MaxTxPermute : transactions \in [1..n -> PermuteDomain]
    /\ arg \in PermutationsOf(transactions)
    /\ aggregation = NoValue
    /\ ret = NoValue
    /\ hoje = NoValue
    /\ valor = <<>>
    /\ centavos = NoValue
    /\ rawTransactions = <<>>

\* aggregateTransactions(transactions)
AggregateList ==
    /\ pc = "start"
    /\ \E mesAtual \in MesesAtuais :
          aggregation' = aggregateTransactions(transactions, mesAtual)
    /\ pc' = "aggregatedList"
    /\ UNCHANGED <<arg, ret, transactions, hoje, valor, centavos, rawTransactions>>
    /\ UNCHANGED <<analysisVars, streamVars, clientVars>>

\* aggregateTransactions(arg), arg being the same transactions in another order
AggregatePermutation ==
    /\ pc = "aggregatedList"
    /\ \E mesAtual \in MesesAtuais :
          ret' = aggregateTransactions(arg, mesAtual)
    /\ pc' = "aggregatedBoth"
    /\ UNCHANGED <<arg, aggregation, transactions, hoje, valor, centavos, rawTransactions>>
    /\ UNCHANGED <<analysisVars, streamVars, clientVars>>

NextPermute == AggregateList \/ AggregatePermutation

SpecPermute == InitPermute /\ [][NextPermute]_vars

ElementsOf(s) == { s[i] : i \in DOMAIN s }

\* C28: the result of aggregateTransactions does not depend on the order of
\* the transactions: a list and a permutation of it give the same totals and
\* balance, the same category entries, monthly entries and top-five outflow
\* categories (each compared as a set), and the same most expensive month.
C28_OrderIndependent ==
    pc = "aggregatedBoth" =>
        /\ ret.totalEntradasCentavos = aggregation.totalEntradasCentavos
        /\ ret.totalSaidasCentavos = aggregation.totalSaidasCentavos
        /\ ret.saldoCentavos = aggregation.saldoCentavos
        /\ ElementsOf(ret.categorias) = ElementsOf(aggregation.categorias)
        /\ ElementsOf(ret.meses) = ElementsOf(aggregation.meses)
        /\ ElementsOf(ret.topCategorias) = ElementsOf(aggregation.topCategorias)
        /\ ret.mesMaisCaro = aggregation.mesMaisCaro

\* the parts of C28 that do not involve the top-five list
C28_AllButTopCategorias ==
    pc = "aggregatedBoth" =>
        /\ ret.totalEntradasCentavos = aggregation.totalEntradasCentavos
        /\ ret.totalSaidasCentavos = aggregation.totalSaidasCentavos
        /\ ret.saldoCentavos = aggregation.saldoCentavos
        /\ ElementsOf(ret.categorias) = ElementsOf(aggregation.categorias)
        /\ ret.meses = aggregation.meses
        /\ ret.mesMaisCaro = aggregation.mesMaisCaro


(***************************************************************************)
(* The client of the stream: APIClient.analyzeCSVWithProgress.  A text is  *)
(* the sequence of its pieces: the line break, the two line prefixes, the  *)
(* braces, the event name and the digits of the batch numbers; a chunk     *)
(* boundary can fall between any two pieces.  wire is the text of the      *)
(* response not yet read, buffer the client's unfinished line, promise the *)
(* state of the promise the method returned.                               *)
(***************************************************************************)
LineBreak == "\n"
EventPrefix == "event: "
DataPrefix == "data: "

\* JSON.stringify(data), by the fields the client reads
JSONStringify(e) ==
    <<"{", e.event>>
      \o (IF e.event \in { "batch_start", "batch_complete" }
          THEN <<DigitChar(e.current), DigitChar(e.total)>> ELSE <<>>)
      \o <<"}">>

\* JSON.parse(text): the object, or a SyntaxError for a text that is not whole
JSONParse(text) ==
    IF Len(text) >= 3 /\ text[1] = "{" /\ text[Len(text)] = "}"
    THEN [syntaxError |-> FALSE, event |-> text[2],
          current |-> IF Len(text) = 5 THEN DigitVal(text[3]) ELSE 0,
          total |-> IF Len(text) = 5 THEN DigitVal(text[4]) ELSE 0]
    ELSE [syntaxError |-> TRUE, event |-> "", current |-> 0, total |-> 0]

\* the two res.write calls of sendEvent(event, data)
SseText(e) ==
    <<EventPrefix, e.event, LineBreak, DataPrefix>> \o JSONStringify(e) \o <<LineBreak, LineBreak>>

RECURSIVE ResponseText(_)
ResponseText(log) ==
    IF Len(log) = 0 THEN <<>> ELSE SseText(log[1]) \o ResponseText(Tail(log))

NoResult == [transactions |-> <<>>]

\* what the handler can have sent when it ends the stream
ServerLogs ==
    { <<StartEvent, ErrorEvent("API key")>>,
      <<StartEvent, BatchStartEvent(1, 1), BatchCompleteEvent(1, 1, <<>>), CompleteEvent(NoResult)>>,
      <<StartEvent, BatchStartEvent(1, 2), BatchCompleteEvent(1, 2, <<>>), BatchStartEvent(2, 2),
        ErrorEvent("Falha ao classificar batch")>> }

\* one pass of the for loop over the lines; st holds the promise, the
\* callbacks made and whether the executor has returned or thrown
AfterLine(line, st) ==
    IF st.returned \/ Len(line) = 0 THEN st
    ELSE IF line[1] = EventPrefix THEN st
    ELSE IF line[1] = DataPrefix
    THEN LET data == JSONParse(Tail(line))
         IN  IF data.syntaxError
             THEN [st EXCEPT !.promise = "rejected", !.returned = TRUE]
             ELSE IF data.event = "start" THEN st
             ELSE IF data.current > 0 /\ data.total > 0 /\ data.event = "batch_start"
             THEN [st EXCEPT !.progress = Append(@, [callback |-> "onBatchStart",
                                                     batchNumber |-> data.current,
                                                     totalBatches |-> data.total])]
             ELSE IF data.current > 0 /\ data.total > 0 /\ data.event = "batch_complete"
             THEN [st EXCEPT !.progress = Append(@, [callback |-> "onBatchComplete",
                                                     batchNumber |-> data.current,
                                                     totalBatches |-> data.total])]
             ELSE IF data.event = "complete"
             THEN [st EXCEPT !.promise = "resolved", !.returned = TRUE]
             ELSE IF data.event = "error"
             THEN [st EXCEPT !.promise = "rejected", !.returned = TRUE]
             ELSE st
    ELSE st

RECURSIVE AfterLines(_, _)
AfterLines(lines, st) ==
    IF Len(lines) = 0 THEN st ELSE AfterLines(Tail(lines), AfterLine(lines[1], st))

\* the response the transport delivers: all the handler wrote, or the text
\* up to the point where the connection was closed
InitClient ==
    /\ pc = "start"
    /\ InitAnalysisVars
    /\ \E log \in ServerLogs :
          /\ events = log
          /\ \E k \in 0..Len(ResponseText(log)) : arg = SubSeq(ResponseText(log), 1, k)
    /\ streamEnded = TRUE
    /\ wire = arg
    /\ buffer = <<>>
    /\ promise = "pending"
    /\ ret = NoValue
    /\ rawTransactions = <<>>
    /\ transactions = <<>>
    /\ aggregation = NoValue
    /\ hoje = NoValue
    /\ valor = <<>>
    /\ centavos = NoValue

clientUnchanged ==
    UNCHANGED <<arg, ret, valor, centavos, rawTransactions, transactions, aggregation, hoje,
                batches, batchIndex, batchResults, outcome, streamVars>>

\* fetch resolves with an ok response that has a body; the reader is taken
FetchOk ==
    /\ pc = "start"
    /\ pc' = "reading"
    /\ UNCHANGED <<wire, buffer, promise, progress>>
    /\ clientUnchanged

\* fetch rejects, or the response is not ok or has no body: the throw reaches
\* the outer catch
FetchFailed ==
    /\ pc = "start"
    /\ promise' = "rejected"
    /\ pc' = "failed"
    /\ UNCHANGED <<wire, buffer, progress>>
    /\ clientUnchanged

\* reader.read() gives a chunk: it is appended to the buffer, the whole lines
\* are handled, the unfinished one is kept
ReadChunk ==
    /\ pc = "reading"
    /\ \E k \in 1..Len(wire) :
          LET lines == split(buffer \o SubSeq(wire, 1, k), LineBreak)
              st == AfterLines(SubSeq(lines, 1, Len(lines) - 1),
                               [promise |-> promise, progress |-> progress, returned |-> FALSE])
          IN  /\ wire' = SubSeq(wire, k + 1, Len(wire))
              /\ buffer' = lines[Len(lines)]
              /\ promise' = st.promise
              /\ progress' = st.progress
              /\ pc' = IF st.returned THEN "returned" ELSE "reading"
    /\ clientUnchanged

\* reader.read() gives done: the loop is left, the lock released, and the
\* executor ends
ReadDone ==
    /\ pc = "reading"
    /\ wire = <<>>
    /\ pc' = "ended"
    /\ UNCHANGED <<wire, buffer, promise, progress>>
    /\ clientUnchanged

\* reader.read() rejects (the connection is reset): the outer catch rejects
ReadFailed ==
    /\ pc = "reading"
    /\ promise' = "rejected"
    /\ pc' = "failed"
    /\ UNCHANGED <<wire, buffer, progress>>
    /\ clientUnchanged

NextClient == FetchOk \/ FetchFailed \/ ReadChunk \/ ReadDone \/ ReadFailed

SpecClient == InitClient /\ [][NextClient]_vars

\* C29: once the response stream has ended the promise has been resolved or
\* rejected, however the text arrives in chunks and also when the stream ends
\* without a final 'complete' or 'error' event.
C29_PromiseSettles ==
    pc \in { "ended", "returned", "failed" } => promise # "pending"

\* when the whole text the handler wrote is delivered, the promise settles with
\* the terminal event, however the text is cut into chunks
C29_SettlesOnTerminalEvent ==
    (arg = ResponseText(events) /\ wire = <<>> /\ pc # "reading") =>
        /\ pc \in { "returned", "failed" }
        /\ pc = "returned" =>
              promise = (IF events[Len(events)].event = "complete" THEN "resolved" ELSE "rejected")


(***************************************************************************)
(* The two builders called on the same classified record: the core         *)
(* convertToTransactionData (services/openai.ts, with parseValorBrasileiro *)
(* of utils/parse.ts) and the one of the backend                           *)
(* (api/services/financial-analyzer.ts, with its own parser).  The record  *)
(* is a purchase whose valorOriginal is any of the amount strings of       *)
(* SpecParse.                                                              *)
(***************************************************************************)
InitBuilders ==
    /\ NoAnalysis
    /\ pc = "start"
    /\ \E n \in 0..MaxTokens : \E pieces \in [1..n -> ValorTokens] : valor = Concat(pieces)
    /\ DigitCount(valor) <= MaxDigits
    /\ rawTransactions = <<WithId([Compra EXCEPT !.valorOriginal = valor], 1)>>
    /\ transactions = <<>>
    /\ centavos = NoValue
    /\ aggregation = NoValue
    /\ hoje = NoValue
    /\ arg = NoValue
    /\ ret = NoValue

\* openai.ts 527: convertToTransactionData(allRawTransactions)
ConvertCore ==
    /\ pc = "start"
    /\ \E h \in Hojes :
          /\ hoje' = h
          /\ transactions' = convertToTransactionData(rawTransactions, h)
    /\ pc' = "builtCore"
    /\ UNCHANGED <<arg, ret, valor, centavos, rawTransactions, aggregation>>
    /\ UNCHANGED <<analysisVars, streamVars, clientVars>>

\* financial-analyzer.ts 590: convertToTransactionData(allRawTransactions), on
\* the same day
ConvertApi ==
    /\ pc = "builtCore"
    /\ ret' = convertToTransactionDataApi(rawTransactions, hoje)
    /\ pc' = "builtBoth"
    /\ UNCHANGED <<arg, valor, centavos, rawTransactions, transactions, aggregation, hoje>>
    /\ UNCHANGED <<analysisVars, streamVars, clientVars>>

NextBuilders == ConvertCore \/ ConvertApi

SpecBuilders == InitBuilders /\ [][NextBuilders]_vars

\* C30: for every raw amount string the backend builder gives the same tipo
\* and the same valorCentavos as the core builder, and that valorCentavos is a
\* non-negative integer.
C30_BuildersAgree ==
    pc = "builtBoth" =>
        /\ Len(ret) = 1 /\ Len(transactions) = 1
        /\ ret[1].tipo = transactions[1].tipo
        /\ ret[1].valorCentavos = Num(transactions[1].valorCentavos)
        /\ ~ret[1].valorCentavos.nan
        /\ ret[1].valorCentavos.value >= 0

\* the backend builder never gives a negative valorCentavos
C30_ApiNeverNegative ==
    pc = "builtBoth" => ret[1].valorCentavos.nan \/ ret[1].valorCentavos.value >= 0

\* the amounts written with a decimal comma and no other separator or
\* parenthesis, on which the two builders agree
C30_AgreeOnPlainCommaAmounts ==
    (pc = "builtBoth"
       /\ \A i \in 1..Len(valor) : valor[i] \in Digits \cup { ",", "-" }
       /\ Len(SelectSeq(valor, LAMBDA c : c = ",")) = 1
       /\ valor[1] # ","
       /\ Len(valor) - 2 <= Len(split(valor, ",")[1]) + 1
       /\ Len(SelectSeq(valor, LAMBDA c : c = "-")) <= 1
       /\ (includesChar(valor, "-") => valor[1] = "-" /\ Len(valor) > 1 /\ valor[2] # ","))
    => /\ ret[1].tipo = transactions[1].tipo
       /\ ret[1].valorCentavos = Num(transactions[1].valorCentavos)

====
